---- MODULE Spec2Model ----
(***************************************************************************)
(* A model of magepack's bundling engine: the bundle classifier            *)
(* (lib/generate/extractCommonBundle.js), the module normalizer            *)
(* (moduleWrapper), the bundle processor (lib/bundle/processor.js), the    *)
(* run orchestrator (lib/bundle.js), the loader-configuration injector,    *)
(* the integrity (SRI) updater and the version-map resolver.               *)
(*                                                                         *)
(* Each component has a specification of its own (SpecClassify, SpecWrap,  *)
(* SpecInject, SpecBundle, SpecRun, SpecSri, SpecResolve); the variables   *)
(* of the other components stay at their idle values under it.             *)
(***************************************************************************)
EXTENDS Integers, Sequences, FiniteSets, TLC

VARIABLES
    \* ---- generate stage: collection and bundle classifier ----
    cPc,          \* "collect" | "input" | "done"
    cVariant,     \* which default export of extractCommonBundle.js ran
    exclusions,   \* the exclusions list of the existing definition file
    inBundles,    \* the page bundles: what the pages define, then (from "input"
                  \* on) what the collectors returned, handed to the classifier
    outBundles,   \* the returned list (<<>> before the call)
    \* ---- module normalizer ----
    wPc,          \* "input" | "done"
    wId,          \* the ModuleId
    wPath,        \* extension of the resolved absolute path
    wSrc,         \* the source text (a parse flag and a token sequence)
    wOut,         \* the text returned by moduleWrapper
    \* ---- bundle processor (one processBundle call) ----
    bPc,          \* position of the call
    bVariant,     \* "parallel" (processor.js) | "batched" (batched reads)
    strict,       \* options.strict (batched variant only)
    shouldMinify, \* Boolean(options.minify) || strategy is aggressive
    moduleNames,  \* Object.keys(bundle.modules), in declaration order
    onDisk,       \* the modules whose file resolveFile finds
    pending,      \* module callbacks of Promise.all that have not finished
    sources,      \* the object sources, as an ordered mapping path -> text
    successCount,
    finalContent, \* the content handed to fs.writeFile
    destFile,     \* the bundle file at destPath
    thrown,       \* the last error thrown inside processBundle ("none" if none)
    \* ---- loader-configuration injector ----
    injVariant,   \* "main" (bundle.js) | "service" (configInjector.js)
    injMinifyOn,  \* isMinifyOn of the target
    rjsFiles,     \* requirejs-config.js and requirejs-config.min.js of the target
    rjsOrig,      \* the two files as they were before the first injection
    injHist,      \* per injection run: the config injected and the files after it
    \* ---- run orchestrator ----
    runVariant,   \* "parallel" (Promise.allSettled) | "sequential" (for loop) |
                  \* "validated" (for loop after validateConfig)
    defFile,      \* what the bundle definition file evaluates to: "list" (the list
                  \* RunConfig) | "emptyList" | "object" ({bundles: RunConfig}) |
                  \* "throws" (it cannot be evaluated)
    minifyOn,     \* isMinifyOn: options.minify || checkMinifyOn
    diskOf,       \* per locale: the modules whose files exist in its static directory
    bundleState,  \* per locale and bundle: position of its processBundle call
    liveDir,      \* per locale: the bundle files in <localePath>/magepack
    rjsFile,      \* per locale: the loader configuration file the run writes
    outcome,      \* per locale: "none" | "running" | "fulfilled" | "rejected"
    settleOrder,  \* the locales in the order they settled
    exitCode,     \* -1 while the process runs, then its exit code
    \* ---- integrity updater ----
    sriVariant,   \* "compare" (processFileHash) | "always" (sriUpdater.js)
    sriMinOn,     \* whether the targets' artifacts carry the .min.js names
    version,      \* per locale: the content version of its artifacts
    finished,     \* the locales whose processing has finished in this run
    uPc,          \* position of the run and of updateSriHashes
    sriFile,      \* sri-hashes.json on disk
    sriData,      \* JSON.parse(sriContent), as an ordered mapping
    updateCount,
    uLoc,         \* index of the locale the for loop is at
    readCount,    \* reads of sri-hashes.json in this run
    writeCount,   \* fs.writeFile calls on sri-hashes.json in this run
    writeFailed,  \* the write of this run was rejected
    sriRuns,      \* runs so far
    prevRun,      \* the manifest at the start of this run (the end of the previous
                  \* one), whether the previous run's write was rejected, and
                  \* whether an artifact has changed since
    \* ---- version-map resolver ----
    mapFile,      \* requirejs-map(.min).js of the target
    logicalPath,  \* the module path handed to the resolver function
    resolved      \* what the call gave: "pending" before it, then the joined
                  \* path or the error it raised

classifierVars == <<cPc, cVariant, exclusions, inBundles, outBundles>>
wrapVars == <<wPc, wId, wPath, wSrc, wOut>>
bundleVars == <<bPc, bVariant, strict, shouldMinify, moduleNames, onDisk, pending, sources,
                successCount, finalContent, destFile, thrown>>
injectVars == <<injVariant, injMinifyOn, rjsFiles, rjsOrig, injHist>>
runVars == <<runVariant, defFile, minifyOn, diskOf, bundleState, liveDir, rjsFile, outcome, settleOrder, exitCode>>
sriVars == <<sriVariant, sriMinOn, version, finished, uPc, sriFile, sriData, updateCount, uLoc,
             readCount, writeCount, writeFailed, sriRuns, prevRun>>
resolverVars == <<mapFile, logicalPath, resolved>>
vars == <<classifierVars, wrapVars, bundleVars, injectVars, runVars, sriVars, resolverVars>>

(***************************************************************************)
(* Generic helpers on sequences.                                           *)
(***************************************************************************)
Range(s) == {s[i] : i \in DOMAIN s}

\* The subsequence of s whose elements satisfy Keep, in the order of s.
RECURSIVE Filter(_, _)
Filter(s, keep) ==
    IF s = <<>> THEN <<>>
    ELSE IF Head(s) \in keep THEN <<Head(s)>> \o Filter(Tail(s), keep)
         ELSE Filter(Tail(s), keep)

\* All sequences without repetition over S of length at most n.
RECURSIVE InjSeqs(_, _)
InjSeqs(S, n) ==
    IF n = 0 THEN {<<>>}
    ELSE LET shorter == InjSeqs(S, n - 1)
             longer == UNION {{Append(s, x) : x \in S \ Range(s)} : s \in shorter}
         IN shorter \cup longer

\* First index of x in s, 0 when absent.
RECURSIVE IndexOfFrom(_, _, _)
IndexOfFrom(s, x, i) ==
    IF i > Len(s) THEN 0
    ELSE IF s[i] = x THEN i ELSE IndexOfFrom(s, x, i + 1)

IndexOf(s, x) == IndexOfFrom(s, x, 1)

\* s without repeated elements, each kept at its first place.
RECURSIVE Dedup(_, _)
Dedup(s, seen) ==
    IF s = <<>> THEN <<>>
    ELSE IF Head(s) \in seen THEN Dedup(Tail(s), seen)
         ELSE <<Head(s)>> \o Dedup(Tail(s), seen \cup {Head(s)})

RECURSIVE Concat(_)
Concat(ss) == IF ss = <<>> THEN <<>> ELSE Head(ss) \o Concat(Tail(ss))

(***************************************************************************)
(* BUNDLE CLASSIFIER  (src/lib/generate/extractCommonBundle.js)            *)
(*                                                                         *)
(* A ModuleId is a record: the loader-plugin tag before "!" ("" if none),  *)
(* the "/"-separated segments of the name and the file extension ("" if    *)
(* none).  "text!Magento_Ui/templates/modal.html" is                       *)
(* [plugin |-> "text", segs |-> <<"Magento_Ui","templates","modal">>,      *)
(*  ext |-> "html"].  An ordered mapping (a JS object with string keys) is *)
(* a sequence of [k, v] records with distinct keys, in insertion order.    *)
(***************************************************************************)
idMageUtils == [plugin |-> "", segs |-> <<"mage", "utils", "wrapper">>, ext |-> ""]
idUiAsync == [plugin |-> "", segs |-> <<"Magento_Ui", "js", "lib", "async">>, ext |-> ""]
idSlick == [plugin |-> "", segs |-> <<"slick">>, ext |-> ""]
idModalTpl == [plugin |-> "text", segs |-> <<"Magento_Ui", "templates", "modal">>, ext |-> "html"]

ModuleIds == {idMageUtils, idUiAsync, idSlick, idModalTpl}

\* Infrastructure modules of the other shapes: a template below mage/
\* ("text!mage/utils/wrapper.html") and an exact name that follows the
\* Vendor_Module/ convention ("Magento_Ui/js/core/app").
idMageTpl == [plugin |-> "text", segs |-> <<"mage", "utils", "wrapper">>, ext |-> "html"]
idCoreApp == [plugin |-> "", segs |-> <<"Magento_Ui", "js", "core", "app">>, ext |-> ""]

CriticalIds == {idMageUtils, idMageTpl, idCoreApp}

\* The page-type bundles the collectors produce, in collection order.
PageNames == <<"cms", "category", "product">>

\* Most modules captured on one page.
MaxModules == 2

\* A declared path: the version of the path and the module it leads to.  The
\* empty string, the only falsy path, is EmptyPath.
EmptyPath == <<>>
PathOf(ver, id) == <<ver, id>>

Keys(modules) == [i \in DOMAIN modules |-> modules[i].k]
HasKey(modules, key) == \E i \in DOMAIN modules : modules[i].k = key
Get(modules, key) == modules[IndexOf(Keys(modules), key)].v
\* b.modules[moduleName] as a condition: the key is there and its path is truthy.
TruthyEntry(modules, key) == HasKey(modules, key) /\ Get(modules, key) # EmptyPath

MIN_USAGE_THRESHOLD == 2
MIN_USAGE_THRESHOLD_B == 3

MANUAL_COMMON_MODULES == {}

CRITICAL_EXACT_MODULES ==
    { <<"Magento_PageCache", "js", "form-key-provider">>,
      <<"Magento_Theme", "js", "responsive">>,
      <<"Magento_Theme", "js", "theme">>,
      <<"Magento_Translation", "js", "mage-translation-dictionary">>,
      <<"Magento_Ui", "js", "core", "app">>,
      <<"Magento_Ui", "js", "modal", "modal">>,
      <<"mage", "requirejs", "resolver">> }

\* The second export's list has no 'mage/requirejs/resolver'.
CRITICAL_EXACT_MODULES_B == CRITICAL_EXACT_MODULES \ {<<"mage", "requirejs", "resolver">>}

\* .replace(/^[^!]+!/, '').replace(/\.js$/, ''): the plugin tag and a final
\* ".js" are dropped.
cleanModuleName(moduleName) ==
    [segs |-> moduleName.segs, ext |-> IF moduleName.ext = "js" THEN "" ELSE moduleName.ext]

\* CRITICAL_PATTERN_MODULES.some(pattern => pattern.test(cleanName))
MatchesCriticalPattern(cleanName) ==
    LET s == cleanName.segs
        n == Len(s)
    IN \/ n >= 2 /\ s[1] = "mage" /\ s[2] \notin {"calendar", "gallery"}
       \/ n >= 2 /\ s[1] = "requirejs"
       \/ s = <<"text">> /\ cleanName.ext = ""
       \/ s = <<"domReady">> /\ cleanName.ext = ""
       \/ s = <<"jquery", "jquery">> /\ cleanName.ext = "js"
       \/ n >= 2 /\ s[1] = "jquery" /\ s[2] \in {"jquery-migrate", "jquery-storageapi"}
       \/ s = <<"underscore">> /\ cleanName.ext = ""
       \/ s = <<"knockoutjs", "knockout">> /\ cleanName.ext = ""

isCriticalInfrastructure(cleanName) ==
    \/ cleanName.ext = "" /\ cleanName.segs \in CRITICAL_EXACT_MODULES
    \/ MatchesCriticalPattern(cleanName)

isCriticalInfrastructureB(cleanName) ==
    \/ cleanName.ext = "" /\ cleanName.segs \in CRITICAL_EXACT_MODULES_B
    \/ MatchesCriticalPattern(cleanName)

\* /^[A-Z][a-zA-Z0-9]+_[A-Z][a-zA-Z0-9]+\//: a first segment Vendor_Module
\* followed by "/".
MAGENTO_MODULE_REGEX(cleanName) ==
    /\ Len(cleanName.segs) >= 2
    /\ cleanName.segs[1] \in {"Magento_PageCache", "Magento_Theme", "Magento_Translation", "Magento_Ui"}

getTargetBundleTypeCommonFirst(cleanName) ==
    IF cleanName.ext \in {"html", "json"} THEN "common"
    ELSE IF isCriticalInfrastructure(cleanName) THEN "vendor"
    ELSE "common"

getTargetBundleType(cleanName) ==
    IF cleanName.ext \in {"html", "json"} THEN "common"
    ELSE IF isCriticalInfrastructure(cleanName) THEN "vendor"
    ELSE IF MAGENTO_MODULE_REGEX(cleanName) THEN "common"
    ELSE "vendor"

getTargetBundleTypeB(cleanName) ==
    IF cleanName.ext \in {"html", "json"} THEN "common"
    ELSE IF isCriticalInfrastructureB(cleanName) THEN "vendor"
    ELSE IF MAGENTO_MODULE_REGEX(cleanName) THEN "common"
    ELSE "vendor"

isExplicitlyCommon(moduleName) == cleanModuleName(moduleName) \in MANUAL_COMMON_MODULES

\* usageCounts.get(moduleName): the number of bundles that have the key.
usageCounts(bundles, moduleName) ==
    Cardinality({i \in DOMAIN bundles : HasKey(bundles[i].modules, moduleName)})

\* Every key at the place it was last seen.
globalOrderLastSeen(bundles) ==
    LET all == Concat([i \in DOMAIN bundles |-> Keys(bundles[i].modules)])
        Reverse(q) == [i \in DOMAIN q |-> q[Len(q) + 1 - i]]
    IN Reverse(Dedup(Reverse(all), {}))

\* globalOrder / discoveryOrder: every key, at the place it was first seen.
globalOrder(bundles) ==
    Dedup(Concat([i \in DOMAIN bundles |-> Keys(bundles[i].modules)]), {})

\* Index of the last bundle whose entry is truthy, 0 when there is none.
sourceBundleLast(bundles, moduleName) ==
    LET holders == {i \in DOMAIN bundles : TruthyEntry(bundles[i].modules, moduleName)}
    IN IF holders = {} THEN 0 ELSE CHOOSE i \in holders : \A j \in holders : j <= i

\* bundles.find(b => b.modules[moduleName]): index of the first bundle whose
\* entry is truthy, 0 when there is none.
RECURSIVE FindSourceFrom(_, _, _)
FindSourceFrom(bundles, moduleName, i) ==
    IF i > Len(bundles) THEN 0
    ELSE IF TruthyEntry(bundles[i].modules, moduleName) THEN i
         ELSE FindSourceFrom(bundles, moduleName, i + 1)

sourceBundle(bundles, moduleName) == FindSourceFrom(bundles, moduleName, 1)

\* Step 2 of the first export: where a module is routed ("vendor", "common",
\* or "stay" when it is not promoted).
Route(bundles, moduleName) ==
    LET cleanName == cleanModuleName(moduleName)
        isForcedVendor == isCriticalInfrastructure(cleanName)
        isShared == usageCounts(bundles, moduleName) >= MIN_USAGE_THRESHOLD
        isConfigured == isExplicitlyCommon(moduleName)
    IN IF ~(isForcedVendor \/ isShared \/ isConfigured) THEN "stay"
       ELSE IF sourceBundle(bundles, moduleName) = 0 THEN "stay"
       ELSE IF isForcedVendor \/ (getTargetBundleType(cleanName) = "vendor" /\ (isShared \/ isConfigured))
            THEN "vendor"
            ELSE "common"

\* Step 2 of the second export (threshold 3, routing by target type alone).
RouteB(bundles, moduleName) ==
    LET cleanName == cleanModuleName(moduleName)
        isForced == isCriticalInfrastructureB(cleanName)
        isShared == usageCounts(bundles, moduleName) >= MIN_USAGE_THRESHOLD_B
        isConfigured == isExplicitlyCommon(moduleName)
    IN IF ~(isForced \/ isShared \/ isConfigured) THEN "stay"
       ELSE IF sourceBundle(bundles, moduleName) = 0 THEN "stay"
       ELSE getTargetBundleTypeB(cleanName)

\* The Map a routing pass fills, as an ordered mapping: the modules routed to
\* `dest`, in discovery order, each with the path of its source bundle.
RoutedModules(bundles, route, dest) ==
    LET order == globalOrder(bundles)
        kept == Filter(order, {m \in Range(order) : route[m] = dest})
    IN [i \in DOMAIN kept |->
          [k |-> kept[i], v |-> Get(bundles[sourceBundle(bundles, kept[i])].modules, kept[i])]]

\* Step 3: delete bundle.modules[key] for every promoted key.
CleanupBundle(bundle, keysToRemove) ==
    [name |-> bundle.name,
     modules |-> Filter(bundle.modules, {e \in Range(bundle.modules) : e.k \notin keysToRemove})]

\* Steps 3 and 4 for a routing `route` (a function of the discovered ids).
Assemble(bundles, route) ==
    LET vendorModules == RoutedModules(bundles, route, "vendor")
        commonModules == RoutedModules(bundles, route, "common")
        keysToRemove == Range(Keys(vendorModules)) \cup Range(Keys(commonModules))
    IN <<[name |-> "vendor", modules |-> vendorModules],
         [name |-> "common", modules |-> commonModules]>>
       \o [i \in DOMAIN bundles |-> CleanupBundle(bundles[i], keysToRemove)]

\* export default function (bundles), first export (MIN_USAGE_THRESHOLD = 2).
extractCommonBundle(bundles) ==
    Assemble(bundles, [m \in Range(globalOrder(bundles)) |-> Route(bundles, m)])

\* export default function (bundles), second export (MIN_USAGE_THRESHOLD = 3).
extractCommonBundleB(bundles) ==
    Assemble(bundles, [m \in Range(globalOrder(bundles)) |-> RouteB(bundles, m)])

\* The capture stage's output: for each page type an ordered mapping of at
\* most MaxModules modules.  Page i declares version i of a module's path, so
\* that the bundle a promoted module's path was taken from can be told.
PageBundle(i, ids) ==
    [name |-> PageNames[i],
     modules |-> [j \in DOMAIN ids |-> [k |-> ids[j], v |-> PathOf(i, ids[j])]]]

CapturedInputs ==
    LET choices == InjSeqs(ModuleIds, MaxModules)
    IN {[i \in DOMAIN PageNames |-> PageBundle(i, f[i])] : f \in [DOMAIN PageNames -> choices]}

\* Captures of pages that load infrastructure modules only.
CriticalInputs ==
    LET choices == InjSeqs(CriticalIds, MaxModules)
    IN {[i \in DOMAIN PageNames |-> PageBundle(i, f[i])] : f \in [DOMAIN PageNames -> choices]}

\* The bundle names the specification calls transactional, and captures in
\* which a browsing page is followed by the two transactional bundles.
TransactionalNames == {"cart", "checkout"}
TransactionalPageNames == <<"cms", "cart", "checkout">>

TransactionalInputs ==
    LET choices == InjSeqs({idSlick, idUiAsync}, MaxModules)
    IN {[i \in DOMAIN TransactionalPageNames |->
            [name |-> TransactionalPageNames[i], modules |-> PageBundle(i, f[i]).modules]]
        : f \in [DOMAIN TransactionalPageNames -> choices]}

\* A module named by one plain word, as in the documented example.
PlainId(word) == [plugin |-> "", segs |-> <<word>>, ext |-> ""]

\* The documented example: cms {A: "a.js", B: "b.js"} and category
\* {A: "a.js", C: "c.js"}.
ExampleBundles ==
    <<[name |-> "cms",
       modules |-> <<[k |-> PlainId("A"), v |-> PathOf(1, PlainId("A"))],
                     [k |-> PlainId("B"), v |-> PathOf(1, PlainId("B"))]>>],
      [name |-> "category",
       modules |-> <<[k |-> PlainId("A"), v |-> PathOf(1, PlainId("A"))],
                     [k |-> PlainId("C"), v |-> PathOf(1, PlainId("C"))]>>]>>

\* An exclusion rule is a prefix of module names: some leading segments,
\* closed by "/" or not ('Magento_Ui/', 'slick').
RuleUi == [segs |-> <<"Magento_Ui">>, slash |-> TRUE]
RuleSlick == [segs |-> <<"slick">>, slash |-> FALSE]

\* The exclusions lists an existing definition file may carry.
ExclusionLists == {<<>>, <<RuleUi, RuleSlick>>}

\* moduleName === rule || moduleName.startsWith(rule), on the whole module
\* name, a loader-plugin tag included.
MatchesRule(moduleName, rule) ==
    /\ moduleName.plugin = ""
    /\ Len(moduleName.segs) >= Len(rule.segs) + (IF rule.slash THEN 1 ELSE 0)
    /\ SubSeq(moduleName.segs, 1, Len(rule.segs)) = rule.segs

isExcluded(moduleName, excludedList) ==
    \E i \in DOMAIN excludedList : MatchesRule(moduleName, excludedList[i])

\* config.exclusions || [] in configurePage, config being the generation
\* config of the CLI: generate.js copies the selectors of the existing file
\* into it, the preserved exclusions only into the file it writes.
generationExclusions(preservedExclusions) == <<>>

\* collectModules: the defined modules that no rule of
\* window.__MAGEPACK_EXCLUSIONS__ excludes, in their order.
collectModules(defined, excludedList) ==
    SelectSeq(defined, LAMBDA entry : ~isExcluded(entry.k, excludedList))

ClassifierIdle ==
    /\ cPc = "idle"
    /\ cVariant = "none"
    /\ exclusions = <<>>
    /\ inBundles = <<>>
    /\ outBundles = <<>>

ClassifierInit ==
    /\ cPc = "collect"
    /\ cVariant = "none"
    /\ exclusions \in ExclusionLists
    /\ inBundles \in CapturedInputs \cup CriticalInputs \cup TransactionalInputs \cup {ExampleBundles}
    /\ outBundles = <<>>

\* generate.js 41-70 and 119-131: the existing file is read, then every
\* collector visits its page and returns its bundle.
Collect ==
    /\ cPc = "collect"
    /\ cPc' = "input"
    /\ inBundles' = [i \in DOMAIN inBundles |->
                       [name |-> inBundles[i].name,
                        modules |-> collectModules(inBundles[i].modules, generationExclusions(exclusions))]]
    /\ UNCHANGED <<cVariant, exclusions, outBundles>>

\* generate.js line 152 with the first export.
RunClassifier ==
    /\ cPc = "input"
    /\ cPc' = "done"
    /\ cVariant' = "threshold2"
    /\ outBundles' = extractCommonBundle(inBundles)
    /\ UNCHANGED <<exclusions, inBundles>>

\* generate.js line 152 with the second export.
RunClassifierB ==
    /\ cPc = "input"
    /\ cPc' = "done"
    /\ cVariant' = "threshold3"
    /\ outBundles' = extractCommonBundleB(inBundles)
    /\ UNCHANGED <<exclusions, inBundles>>

\* The ids that occur in some input bundle.
InputIds == UNION {Range(Keys(inBundles[i].modules)) : i \in DOMAIN inBundles}

\* How many bundles of the returned list hold the id.
Occurrences(m) == Cardinality({i \in DOMAIN outBundles : HasKey(outBundles[i].modules, m)})

\* C1: after the classifier ran, every ModuleId of the input occurs in
\* exactly one bundle of the returned list.
C1_Exclusivity == cPc = "done" => \A m \in InputIds : Occurrences(m) = 1

\* The same statement for the first export alone (threshold 2), where it holds.
ExclusivityThreshold2 == (cPc = "done" /\ cVariant = "threshold2") => \A m \in InputIds : Occurrences(m) = 1

\* No id is ever lost, under either export.
NoOmission == cPc = "done" => \A m \in InputIds : Occurrences(m) >= 1

\* The modules of the returned bundle called name, as an ordered mapping;
\* the empty mapping when no bundle has the name.
ModulesOf(name) ==
    LET found == {i \in DOMAIN outBundles : outBundles[i].name = name}
    IN IF found = {} THEN <<>> ELSE outBundles[CHOOSE i \in found : TRUE].modules

OnlyEntry(word) == <<[k |-> PlainId(word), v |-> PathOf(1, PlainId(word))]>>

\* The first export (threshold 2) was called with the documented example.
ExampleClassified == cPc = "done" /\ cVariant = "threshold2" /\ inBundles = ExampleBundles

C19_ExcludedNowhere ==
    cPc = "done" =>
        \A i \in DOMAIN outBundles : \A j \in DOMAIN outBundles[i].modules :
           ~isExcluded(outBundles[i].modules[j].k, exclusions)

\* The input ids whose cleaned name is in the critical-infrastructure set.
CriticalInput == {m \in InputIds : isCriticalInfrastructure(cleanModuleName(m))}

\* C20: after the classifier ran, every module whose cleaned name matches the
\* critical-infrastructure set is in the vendor bundle and in no other
\* bundle, whatever its usage count, file extension and naming convention.
C20_CriticalInVendor ==
    cPc = "done" =>
        \A m \in CriticalInput : HasKey(ModulesOf("vendor"), m) /\ Occurrences(m) = 1

\* The same statement for the first export alone, where it holds: its
\* routing tests isForcedVendor before the target type.
CriticalInVendorThreshold2 ==
    (cPc = "done" /\ cVariant = "threshold2") =>
        \A m \in CriticalInput : HasKey(ModulesOf("vendor"), m) /\ Occurrences(m) = 1

\* Under the second export a critical module leaves vendor only as a
\* template or JSON resource, and then it is in common alone.
CriticalThreshold3 ==
    (cPc = "done" /\ cVariant = "threshold3") =>
        \A m \in CriticalInput :
           /\ Occurrences(m) = 1
           /\ IF m.ext \in {"html", "json"} THEN HasKey(ModulesOf("common"), m)
                                           ELSE HasKey(ModulesOf("vendor"), m)

\* The module left its page bundles for vendor or common.
Promoted(m) == HasKey(ModulesOf("vendor"), m) \/ HasKey(ModulesOf("common"), m)

\* Every input bundle that references the module is a transactional one.
OnlyTransactional(m) ==
    \A i \in DOMAIN inBundles :
       HasKey(inBundles[i].modules, m) => inBundles[i].name \in TransactionalNames

\* The module is still in every page bundle that declared it.
StaysInPlace(m) ==
    \A i \in DOMAIN inBundles :
       HasKey(inBundles[i].modules, m) => HasKey(ModulesOf(inBundles[i].name), m)

\* C21: a non-critical module outside the manual list is promoted exactly
\* when at least 2 bundles reference it and it is not used by transactional
\* bundles (cart/checkout) alone; a module referenced only by transactional
\* bundles stays in them.
C21_PromotionRule ==
    cPc = "done" =>
        \A m \in InputIds \ CriticalInput :
           /\ Promoted(m) <=> (usageCounts(inBundles, m) >= 2 /\ ~OnlyTransactional(m))
           /\ OnlyTransactional(m) => StaysInPlace(m)

\* What the first export does: the count alone decides, whatever the names
\* of the bundles that reference the module.
PromotedByCountThreshold2 ==
    (cPc = "done" /\ cVariant = "threshold2") =>
        \A m \in InputIds \ CriticalInput :
           /\ Promoted(m) <=> usageCounts(inBundles, m) >= MIN_USAGE_THRESHOLD
           /\ ~Promoted(m) => StaysInPlace(m)

\* The second export does the same with its threshold of 3.
PromotedByCountThreshold3 ==
    (cPc = "done" /\ cVariant = "threshold3") =>
        \A m \in InputIds \ CriticalInput :
           /\ Promoted(m) <=> usageCounts(inBundles, m) >= MIN_USAGE_THRESHOLD_B
           /\ ~Promoted(m) => StaysInPlace(m)

\* Where a module is first seen in the input: bundles in input order,
\* modules in declaration order within a bundle.
FirstSeen(m) == IndexOf(Concat([i \in DOMAIN inBundles |-> Keys(inBundles[i].modules)]), m)

\* The keys of an ordered mapping follow the first-seen order.
InDiscoveryOrder(modules) ==
    \A i, j \in DOMAIN modules : i < j => FirstSeen(modules[i].k) < FirstSeen(modules[j].k)

\* C24: in the classifier's output the modules of vendor and of common are
\* each in first-seen discovery order, and every page bundle holds the
\* modules that remain in it in the order it declared them.
C24_DiscoveryOrder ==
    cPc = "done" =>
        /\ InDiscoveryOrder(ModulesOf("vendor"))
        /\ InDiscoveryOrder(ModulesOf("common"))
        /\ \A i \in DOMAIN inBundles :
              Keys(outBundles[i + 2].modules) =
                 SelectSeq(Keys(inBundles[i].modules), LAMBDA m : ~Promoted(m))

\* C24's case happened: two promoted modules stand in vendor in the order
\* of their first sight although a later bundle declares them the other
\* way round.
C24_Witness ==
    /\ cPc = "done"
    /\ Len(ModulesOf("vendor")) = 2
    /\ \E i \in DOMAIN inBundles :
          LET keys == Keys(inBundles[i].modules)
              first == ModulesOf("vendor")[1].k
              second == ModulesOf("vendor")[2].k
          IN /\ first \in Range(keys) /\ second \in Range(keys)
             /\ IndexOf(keys, second) < IndexOf(keys, first)

\* The first input bundle, in input order, that declares the module.
FirstDeclarer(m) ==
    CHOOSE i \in DOMAIN inBundles :
       /\ HasKey(inBundles[i].modules, m)
       /\ \A j \in 1..(i - 1) : ~HasKey(inBundles[j].modules, m)

\* The path a promoted module carries in vendor or common.
PromotedPath(m) ==
    IF HasKey(ModulesOf("vendor"), m) THEN Get(ModulesOf("vendor"), m)
                                      ELSE Get(ModulesOf("common"), m)

\* C25: every module promoted to vendor or common carries there the path
\* declared by the first input bundle that declares it, and every module
\* left in a page bundle keeps the path that bundle declared for it.
C25_AuthoritativePath ==
    cPc = "done" =>
        /\ \A m \in InputIds :
              Promoted(m) => PromotedPath(m) = Get(inBundles[FirstDeclarer(m)].modules, m)
        /\ \A i \in DOMAIN inBundles : \A j \in DOMAIN outBundles[i + 2].modules :
              LET entry == outBundles[i + 2].modules[j]
              IN HasKey(inBundles[i].modules, entry.k) /\ entry.v = Get(inBundles[i].modules, entry.k)

\* C25's case happened: a module declared by the second and the third
\* bundle, with different paths, was promoted with the second bundle's path.
C25_Witness ==
    /\ cPc = "done"
    /\ \E m \in InputIds :
          /\ Promoted(m)
          /\ ~HasKey(inBundles[1].modules, m)
          /\ HasKey(inBundles[2].modules, m) /\ HasKey(inBundles[3].modules, m)
          /\ Get(inBundles[2].modules, m) # Get(inBundles[3].modules, m)
          /\ PromotedPath(m) = Get(inBundles[2].modules, m)

(***************************************************************************)
(* MODULE NORMALIZER  (moduleWrapper, src/lib/bundle/moduleMapResolver.js  *)
(* lines 258-486)                                                          *)
(*                                                                         *)
(* A source text is a record: whether acorn can parse it (as a module or   *)
(* as a script) and its text, a sequence of top-level statements.  A       *)
(* statement is either one without any call to define, or a call           *)
(* statement: its callee and the kinds of its arguments.  The text the     *)
(* normalizer returns is a sequence of the same tokens, so "byte           *)
(* identical" is equality of the sequences.                                *)
(***************************************************************************)
Stmt == [kind |-> "stmt"]
Call(callee, args) == [kind |-> "call", callee |-> callee, args |-> [i \in DOMAIN args |-> [a |-> args[i]]]]

\* Statements a module file is made of: plain code, define() without
\* arguments, a named define, anonymous defines (dependency array first,
\* factory first, a non-string literal first) and a define reached through a
\* member expression, which the walker does not count as a define call.
Statements ==
    { Stmt,
      Call("define", <<>>),
      Call("define", <<"str", "arr", "fn">>),
      Call("define", <<"arr", "fn">>),
      Call("define", <<"fn">>),
      Call("define", <<"num", "fn">>),
      Call("window.define", <<"str", "fn">>) }

\* Most statements of a module file.
MaxStmts == 2

\* File extensions of resolved paths.
PathExts == {"js", "html"}

RECURSIVE SeqsUpTo(_, _)
SeqsUpTo(S, n) ==
    IF n = 0 THEN {<<>>}
    ELSE LET shorter == SeqsUpTo(S, n - 1)
         IN shorter \cup {Append(s, x) : s \in shorter, x \in S}

\* node.callee.type === 'Identifier' && node.callee.name === 'define'
IsDefineCall(tok) == tok.kind = "call" /\ tok.callee = "define"

\* args.length > 0 && (args[0].type !== 'Literal' || typeof args[0].value !== 'string')
FirstArgNotString(tok) == Len(tok.args) > 0 /\ tok.args[1].a # "str"

isNonAmdInverted(moduleContents) ==
    \/ ~moduleContents.parses
    \/ \E i \in DOMAIN moduleContents.text : IsDefineCall(moduleContents.text[i])

\* isNonAmd: no AST, or no call to define in it.
isNonAmd(moduleContents) ==
    \/ ~moduleContents.parses
    \/ ~\E i \in DOMAIN moduleContents.text : IsDefineCall(moduleContents.text[i])

\* wrapNonAmd: one define named by the module id around the whole content,
\* dependencies and export value looked up in the shim table at run time.
wrapNonAmd(moduleName, content) ==
    <<[kind |-> "wrapNonAmd", id |-> moduleName, shim |-> "deferred", body |-> content.text]>>

isTextPluginModuleId(moduleName) == moduleName.plugin = "text"

isTextFilePath(modulePath) == modulePath \in {"html", "htm", "json", "txt", "svg", "css"}

isText(moduleName, modulePath) == isTextFilePath(modulePath) \/ isTextPluginModuleId(moduleName)

\* wrapText: a named define returning the jsesc-escaped content.
wrapText(moduleName, content) ==
    <<[kind |-> "wrapText", id |-> moduleName, body |-> [jsesc |-> content.text]]>>

\* isAnonymousAmd: some define call whose first argument is not a string literal.
isAnonymousAmd(moduleContents) ==
    /\ moduleContents.parses
    /\ \E i \in DOMAIN moduleContents.text :
          IsDefineCall(moduleContents.text[i]) /\ FirstArgNotString(moduleContents.text[i])

\* Index of the first define call the walker rewrites, 0 when there is none.
RECURSIVE FirstAnonymousFrom(_, _)
FirstAnonymousFrom(text, i) ==
    IF i > Len(text) THEN 0
    ELSE IF IsDefineCall(text[i]) /\ FirstArgNotString(text[i]) THEN i
         ELSE FirstAnonymousFrom(text, i + 1)

InsertNameOverFirst(tok, moduleName) ==
    [tok EXCEPT !.args = <<[a |-> "inserted", id |-> moduleName]>> \o Tail(tok.args)]

\* magicString.appendLeft(args[0].start, `'${moduleName}', `)
InsertName(tok, moduleName) ==
    [tok EXCEPT !.args = <<[a |-> "inserted", id |-> moduleName]>> \o tok.args]

wrapAnonymousAmd(moduleName, moduleContents) ==
    LET at == FirstAnonymousFrom(moduleContents.text, 1)
    IN IF ~moduleContents.parses \/ at = 0 THEN moduleContents.text
       ELSE [moduleContents.text EXCEPT ![at] = InsertName(moduleContents.text[at], moduleName)]

\* A dispatcher that tests for a legacy script before the text resource.
moduleWrapperLegacyFirst(moduleName, content, modulePath) ==
    IF isNonAmd(content) THEN wrapNonAmd(moduleName, content)
    ELSE IF isText(moduleName, modulePath) THEN wrapText(moduleName, content)
    ELSE IF isAnonymousAmd(content) THEN wrapAnonymousAmd(moduleName, content)
    ELSE content.text

\* The default export of moduleWrapper.
moduleWrapper(moduleName, content, modulePath) ==
    IF isText(moduleName, modulePath) THEN wrapText(moduleName, content)
    ELSE IF isNonAmd(content) THEN wrapNonAmd(moduleName, content)
    ELSE IF isAnonymousAmd(content) THEN wrapAnonymousAmd(moduleName, content)
    ELSE content.text

WrapIdle ==
    /\ wPc = "idle"
    /\ wId = idSlick
    /\ wPath = "js"
    /\ wSrc = [parses |-> TRUE, text |-> <<>>]
    /\ wOut = <<>>

WrapInit ==
    /\ wPc = "input"
    /\ wId \in ModuleIds
    /\ wPath \in PathExts
    /\ wSrc \in [parses : BOOLEAN, text : SeqsUpTo(Statements, MaxStmts)]
    /\ wOut = <<>>

\* processor.js line 92: moduleWrapper(moduleName, content, absPath).
Normalize ==
    /\ wPc = "input"
    /\ wPc' = "done"
    /\ wOut' = moduleWrapper(wId, wSrc, wPath)
    /\ UNCHANGED <<wId, wPath, wSrc>>

\* The module is no text resource: neither by its path nor by a text! tag.
NotTextResource == wId.plugin # "text" /\ wPath = "js"

\* The source is a named definition: it parses, it calls define with a string
\* literal first, and no define call of it has another first argument.
NamedDefinition ==
    /\ wSrc.parses
    /\ \E i \in DOMAIN wSrc.text :
          /\ wSrc.text[i].kind = "call" /\ wSrc.text[i].callee = "define"
          /\ Len(wSrc.text[i].args) > 0 /\ wSrc.text[i].args[1].a = "str"
    /\ \A i \in DOMAIN wSrc.text :
          (wSrc.text[i].kind = "call" /\ wSrc.text[i].callee = "define" /\ Len(wSrc.text[i].args) > 0)
             => wSrc.text[i].args[1].a = "str"

\* C10: a module that is no text resource and whose source is a named
\* definition is returned by the normalizer byte-identical.
C10_NamedPassThrough ==
    (wPc = "done" /\ NotTextResource /\ NamedDefinition) => wOut = wSrc.text

\* C10's case happened: a named definition next to other code went through
\* the normalizer and came back as it was.
C10_Witness ==
    /\ wPc = "done" /\ NotTextResource /\ NamedDefinition
    /\ Len(wSrc.text) = 2
    /\ wOut = wSrc.text

\* The source is an anonymous definition: it parses and some call to define
\* in it has a first argument that is no string literal.
AnonymousDefinition ==
    /\ wSrc.parses
    /\ \E i \in DOMAIN wSrc.text :
          /\ wSrc.text[i].kind = "call" /\ wSrc.text[i].callee = "define"
          /\ Len(wSrc.text[i].args) > 0 /\ wSrc.text[i].args[1].a # "str"

\* A statement without the arguments the normalizer inserted.
WithoutInserted(tok) ==
    IF tok.kind = "call"
    THEN [tok EXCEPT !.args = SelectSeq(tok.args, LAMBDA arg : arg.a # "inserted")]
    ELSE tok

\* The output is the source with the module id put in front of the first
\* argument of the call at position at, and nothing else.
NameInsertedAt(at) ==
    /\ wSrc.text[at].kind = "call" /\ wSrc.text[at].callee = "define"
    /\ Len(wOut) = Len(wSrc.text)
    /\ \A i \in DOMAIN wSrc.text : i # at => wOut[i] = wSrc.text[i]
    /\ wOut[at].kind = "call" /\ wOut[at].callee = "define"
    /\ wOut[at].args = <<[a |-> "inserted", id |-> wId]>> \o wSrc.text[at].args

\* C11: for an anonymous definition that is no text resource, the output is
\* the source plus the module id inserted in front of the first argument of
\* exactly one define call; taking the inserted text out gives the source
\* back, so nothing else was added, removed or reordered.
C11_OnlyNameInserted ==
    (wPc = "done" /\ NotTextResource /\ AnonymousDefinition) =>
        /\ Cardinality({at \in DOMAIN wSrc.text : NameInsertedAt(at)}) = 1
        /\ [i \in DOMAIN wOut |-> WithoutInserted(wOut[i])] = wSrc.text

\* C11's case happened: an anonymous define that follows other code was
\* named by the normalizer.
C11_Witness ==
    /\ wPc = "done" /\ NotTextResource /\ AnonymousDefinition
    /\ Len(wSrc.text) = 2
    /\ wSrc.text[1] = Stmt
    /\ NameInsertedAt(2)

\* The source is a legacy script: it has no call to define that the parser
\* can find (it does not parse, or no statement of it calls `define`).
LegacyScript ==
    \/ ~wSrc.parses
    \/ \A i \in DOMAIN wSrc.text : ~(wSrc.text[i].kind = "call" /\ wSrc.text[i].callee = "define")

\* The output is one define named by the module id, its dependency list and
\* return value looked up in the shim table at run time, around the source.
WrappedAsLegacy ==
    /\ Len(wOut) = 1
    /\ wOut[1].kind = "wrapNonAmd" /\ wOut[1].id = wId /\ wOut[1].shim = "deferred"
    /\ wOut[1].body = wSrc.text

\* The output is one define named by the module id that returns the source
\* as an escaped string.
WrappedAsText ==
    /\ Len(wOut) = 1
    /\ wOut[1].kind = "wrapText" /\ wOut[1].id = wId
    /\ wOut[1].body = [jsesc |-> wSrc.text]

\* C26: the normalizer classifies by first match in the order text resource,
\* legacy script, anonymous definition, named definition; a non-text source
\* without a call to define is wrapped as a legacy script, unchanged inside
\* a define named by the module id with run-time shim lookups.
C26_FirstMatchWins ==
    wPc = "done" =>
        IF ~NotTextResource THEN WrappedAsText
        ELSE IF LegacyScript THEN WrappedAsLegacy
        ELSE IF AnonymousDefinition THEN \E at \in DOMAIN wSrc.text : NameInsertedAt(at)
        ELSE wOut = wSrc.text

\* C26's case happened: a script module whose one statement calls no define
\* came back wrapped as a legacy script.
C26_Witness ==
    /\ wPc = "done" /\ NotTextResource
    /\ wSrc = [parses |-> TRUE, text |-> <<Stmt>>]
    /\ WrappedAsLegacy

(***************************************************************************)
(* BUNDLE PROCESSOR  (processBundle, src/lib/bundle/processor.js 68-167    *)
(* and the variant with batched reads)                                     *)
(*                                                                         *)
(* processBundle starts one asynchronous callback per module; each waits   *)
(* for resolveFile and fs.readFile and then stores the wrapped content in  *)
(* the object `sources` under the file's relative path.  A JavaScript      *)
(* object lists its (non-numeric) keys in insertion order, so `sources` is *)
(* an ordered mapping: a sequence of entries [k, v].                       *)
(***************************************************************************)
\* Extension of the file a module resolves to.
FileExt(moduleName) == IF moduleName.ext = "" THEN "js" ELSE moduleName.ext

\* A second name of the slick script: the definition declares for it the
\* path of slick's file (an alias of the loader's `paths`).
idCarousel == [plugin |-> "", segs |-> <<"carousel">>, ext |-> ""]

\* The modules a bundle of the model may declare.
BundleModuleIds == ModuleIds \cup {idCarousel}

\* bundle.modules[moduleName]: the module whose file the declared path names.
DeclaredFile(moduleName) == IF moduleName = idCarousel THEN idSlick ELSE moduleName

\* path.relative(destDir, absPath): one key per file.
relativeSourcePath(moduleName) ==
    <<DeclaredFile(moduleName).segs, FileExt(DeclaredFile(moduleName))>>

\* What fs.readFile returns for the files of the model: an anonymous AMD
\* module, a named one, a plain script and a template.
DiskSource(moduleName) ==
    IF moduleName = idMageUtils THEN [parses |-> TRUE, text |-> <<Call("define", <<"arr", "fn">>)>>]
    ELSE IF moduleName = idUiAsync THEN [parses |-> TRUE, text |-> <<Call("define", <<"str", "arr", "fn">>)>>]
    ELSE IF DeclaredFile(moduleName) = idSlick THEN [parses |-> TRUE, text |-> <<Stmt, Stmt>>]
    ELSE [parses |-> FALSE, text |-> <<Stmt>>]

\* The value stored in sources: the module it came from and the wrapped text.
wrappedContent(moduleName) ==
    [module |-> moduleName,
     text |-> moduleWrapper(moduleName, DiskSource(moduleName), FileExt(moduleName))]

AppendProperty(obj, key, value) == Append(obj, [k |-> key, v |-> value])

\* sources[key] = value: replaces in place when the key exists, else appends.
SetProperty(obj, key, value) ==
    IF HasKey(obj, key)
    THEN [i \in DOMAIN obj |-> IF obj[i].k = key THEN [k |-> key, v |-> value] ELSE obj[i]]
    ELSE Append(obj, [k |-> key, v |-> value])

\* Object.values(sources)
ObjectValues(obj) == [i \in DOMAIN obj |-> obj[i].v]

\* const BATCH_SIZE = 50
BATCH_SIZE == 50

\* chunkArray: the chunk (counted from 0) the i-th module name falls in.
chunkOf(i) == (i - 1) \div BATCH_SIZE

\* The chunk being read: the parallel variant starts every callback at once,
\* the batched one awaits the chunks one after the other.
RECURSIVE FirstPendingFrom(_, _, _)
FirstPendingFrom(names, waiting, i) ==
    IF i > Len(names) THEN 0
    ELSE IF names[i] \in waiting THEN i ELSE FirstPendingFrom(names, waiting, i + 1)

Started(moduleName) ==
    \/ bVariant = "parallel"
    \/ chunkOf(IndexOf(moduleNames, moduleName)) = chunkOf(FirstPendingFrom(moduleNames, pending, 1))

NoFile == [exists |-> FALSE, content |-> <<>>]

BundleIdle ==
    /\ bPc = "idle" /\ bVariant = "none" /\ strict = FALSE /\ shouldMinify = FALSE
    /\ moduleNames = <<>> /\ onDisk = {} /\ pending = {} /\ sources = <<>>
    /\ successCount = 0 /\ finalContent = <<>> /\ destFile = NoFile /\ thrown = "none"

BundleInit ==
    /\ bPc = "reading"
    /\ bVariant \in {"parallel", "batched"}
    /\ strict \in BOOLEAN
    /\ bVariant = "parallel" => strict = FALSE
    /\ shouldMinify \in BOOLEAN
    /\ moduleNames \in InjSeqs(BundleModuleIds, MaxModules)
    /\ onDisk \in {found \in SUBSET Range(moduleNames) :
                     \A m, n \in Range(moduleNames) :
                        DeclaredFile(m) = DeclaredFile(n) => (m \in found <=> n \in found)}
    /\ pending = Range(moduleNames)
    /\ sources = <<>>
    /\ successCount = 0
    /\ finalContent = <<>>
    /\ destFile = NoFile
    /\ thrown = "none"

\* One callback runs to its end: the file was found and read.
ReadCompletes(moduleName) ==
    /\ bPc = "reading" /\ moduleName \in pending /\ Started(moduleName)
    /\ moduleName \in onDisk
    /\ sources' = SetProperty(sources, relativeSourcePath(moduleName), wrappedContent(moduleName))
    /\ successCount' = successCount + 1
    /\ pending' = pending \ {moduleName}
    /\ UNCHANGED <<thrown, bPc, bVariant, strict, shouldMinify, moduleNames, onDisk, finalContent, destFile>>

\* The file is missing and the error is swallowed: the module is skipped.
ReadSkipped(moduleName) ==
    /\ bPc = "reading" /\ moduleName \in pending /\ Started(moduleName)
    /\ moduleName \notin onDisk /\ ~strict
    /\ pending' = pending \ {moduleName}
    /\ UNCHANGED <<thrown, bPc, bVariant, strict, shouldMinify, moduleNames, onDisk, sources, successCount,
                   finalContent, destFile>>

\* Strict mode: the callback rethrows, Promise.all and processBundle reject.
ReadThrows(moduleName) ==
    /\ bPc = "reading" /\ moduleName \in pending /\ Started(moduleName)
    /\ moduleName \notin onDisk /\ strict
    /\ bPc' = "rejected"
    /\ pending' = pending \ {moduleName}
    /\ thrown' = "module"
    /\ UNCHANGED <<bVariant, strict, shouldMinify, moduleNames, onDisk, sources, successCount,
                   finalContent, destFile>>

\* if (successCount === 0) return
Abandon ==
    /\ bPc = "reading" /\ pending = {} /\ successCount = 0
    /\ bPc' = "abandoned"
    /\ UNCHANGED <<thrown, bVariant, strict, shouldMinify, moduleNames, onDisk, pending, sources, successCount,
                   finalContent, destFile>>

\* Fast concat: Object.values(sources).join('\n')
Concatenate ==
    /\ bPc = "reading" /\ pending = {} /\ successCount > 0 /\ ~shouldMinify
    /\ finalContent' = [minified |-> FALSE, parts |-> ObjectValues(sources)]
    /\ bPc' = "write"
    /\ UNCHANGED <<thrown, bVariant, strict, shouldMinify, moduleNames, onDisk, pending, sources, successCount, destFile>>

\* minify(sources, terserOptions) returns code: the files in the order of the object.
TerserOk ==
    /\ bPc = "reading" /\ pending = {} /\ successCount > 0 /\ shouldMinify
    /\ finalContent' = [minified |-> TRUE, parts |-> ObjectValues(sources)]
    /\ bPc' = "write"
    /\ UNCHANGED <<thrown, bVariant, strict, shouldMinify, moduleNames, onDisk, pending, sources, successCount, destFile>>

TerserThrowsAborts ==
    /\ bPc = "reading" /\ pending = {} /\ successCount > 0 /\ shouldMinify
    /\ bPc' = "rejected"
    /\ thrown' = "minify"
    /\ UNCHANGED <<bVariant, strict, shouldMinify, moduleNames, onDisk, pending, sources, successCount,
                   finalContent, destFile>>

\* minify throws: the raw concatenation is written instead.
TerserThrows ==
    /\ bPc = "reading" /\ pending = {} /\ successCount > 0 /\ shouldMinify
    /\ finalContent' = [minified |-> FALSE, parts |-> ObjectValues(sources)]
    /\ bPc' = "write"
    /\ thrown' = "minify"
    /\ UNCHANGED <<bVariant, strict, shouldMinify, moduleNames, onDisk, pending, sources, successCount, destFile>>

\* fs.mkdir and fs.writeFile(destPath, finalContent)
WriteFile ==
    /\ bPc = "write"
    /\ destFile' = [exists |-> TRUE, content |-> finalContent]
    /\ bPc' = "compress"
    /\ UNCHANGED <<thrown, bVariant, strict, shouldMinify, moduleNames, onDisk, pending, sources, successCount, finalContent>>

WriteFileFails ==
    /\ bPc = "write"
    /\ bPc' = "rejected"
    /\ thrown' = "write"
    /\ UNCHANGED <<bVariant, strict, shouldMinify, moduleNames, onDisk, pending, sources, successCount,
                   finalContent, destFile>>

\* compressFile and reportBundleSize
CompressFile ==
    /\ bPc = "compress"
    /\ bPc' = "done"
    /\ UNCHANGED <<thrown, bVariant, strict, shouldMinify, moduleNames, onDisk, pending, sources, successCount,
                   finalContent, destFile>>

CompressFileFails ==
    /\ bPc = "compress"
    /\ bPc' = "rejected"
    /\ thrown' = "compress"
    /\ UNCHANGED <<bVariant, strict, shouldMinify, moduleNames, onDisk, pending, sources, successCount,
                   finalContent, destFile>>

\* The modules of the written bundle file, in the order of its content.
WrittenOrder == [i \in DOMAIN destFile.content.parts |-> destFile.content.parts[i].module]

\* bundle.modules' keys with the skipped modules removed.
DeclaredOrder == Filter(moduleNames, onDisk)

\* The modules the callbacks counted as successfully processed.
Counted == Range(moduleNames) \cap onDisk

\* C28: the written bundle holds the normalized source of every module
\* that was counted as successfully processed, and as many module sources
\* as successCount says, also when two ModuleIds name the same file.
C28_EveryCountedModuleWritten ==
    destFile.exists =>
        /\ Len(destFile.content.parts) = successCount
        /\ \A m \in Counted : \E i \in DOMAIN destFile.content.parts :
              destFile.content.parts[i] = wrappedContent(m)

\* No two modules of the bundle declare the same file.
DistinctFiles == \A m, n \in Range(moduleNames) : DeclaredFile(m) = DeclaredFile(n) => m = n

\* The same statement for bundles whose modules name different files, where
\* it holds.
CountedWrittenDistinctFiles ==
    (destFile.exists /\ DistinctFiles) =>
        /\ Len(destFile.content.parts) = successCount
        /\ \A m \in Counted : \E i \in DOMAIN destFile.content.parts :
              destFile.content.parts[i] = wrappedContent(m)

\* C2: the normalized modules appear in the written bundle content in the
\* relative order of their keys in bundle.modules, skipped modules removed,
\* whatever the completion order of the concurrent reads.
C2_OrderPreserved == destFile.exists => WrittenOrder = DeclaredOrder

\* The same modules are written, whatever their order, when no two of them
\* declare the same file.
C2_SameModules == (destFile.exists /\ DistinctFiles) => Range(WrittenOrder) = onDisk

\* The modules of the bundle whose file can be found and read.
Readable == Range(moduleNames) \cap onDisk

\* processBundle got as far as assembling the content of the bundle.
Assembled == bPc \in {"write", "compress", "done"} \/ (bPc = "rejected" /\ successCount > 0 /\ pending = {})

\* C15: a module that cannot be found or read is skipped alone: it never
\* makes processBundle reject, the content that is assembled holds every
\* readable module of the bundle, and the bundle file is written exactly
\* when some module succeeded (none: the bundle is abandoned, no file).
C15_OnlyFailedModuleSkipped ==
    /\ bPc = "rejected" => Assembled
    /\ Assembled => (Readable # {} /\ {e.module : e \in Range(ObjectValues(sources))} = Readable)
    /\ bPc = "abandoned" => (Readable = {} /\ ~destFile.exists)
    /\ destFile.exists => Readable # {}
    /\ bPc = "done" => destFile.exists

\* C16: once the minifier has thrown, processBundle goes on to write: the
\* content handed to the write is the unminified concatenation of the
\* normalized modules, the call is not rejected by it, and the bundle file,
\* once written, holds that content.
C16_MinifierFallback ==
    thrown = "minify" =>
        /\ bPc \in {"write", "compress", "done"}
        /\ finalContent = [minified |-> FALSE, parts |-> ObjectValues(sources)]
        /\ {e.module : e \in Range(finalContent.parts)} = Readable
        /\ bPc \in {"compress", "done"} => destFile = [exists |-> TRUE, content |-> finalContent]

\* The minifier threw and the bundle with its two modules was written
\* unminified and finished.
C16_Witness ==
    /\ thrown = "minify" /\ shouldMinify /\ bPc = "done"
    /\ destFile.exists /\ ~destFile.content.minified
    /\ Len(destFile.content.parts) = 2

\* The same statement without the strict option and for modules that name
\* different files, where it holds.
C15_WithoutStrict == (~strict /\ DistinctFiles) => C15_OnlyFailedModuleSkipped

\* C16 for bundles whose modules name different files, where it holds.
MinifierFallbackDistinctFiles == DistinctFiles => C16_MinifierFallback

(***************************************************************************)
(* LOADER-CONFIGURATION INJECTOR  (src/lib/bundle.js 23-82 and             *)
(* src/lib/bundle/service/configInjector.js 20-80)                         *)
(*                                                                         *)
(* The text of a requirejs-config file is a sequence of tokens: code       *)
(* characters, semicolons, newlines, the two marker comments and the       *)
(* generated require.config call.                                          *)
(***************************************************************************)
Ch(c) == [ch |-> c]
startMarker == Ch("S")
endMarker == Ch("E")
Chars == {Ch("x"), Ch(";"), Ch("nl"), startMarker, endMarker}

\* Longest requirejs-config file the injector is run on.
MaxChars == 3

\* Most injection runs on one target.
MaxRuns == 2

\* f.replace(/\.js$/, '')
StripJs(f) == IF f.ext = "js" THEN [f EXCEPT !.ext = ""] ELSE f

\* buildRequireConfigContent of bundle.js: every bundle of the config with
\* all the keys of its modules, and the path of its (possibly minified) file.
buildRequireConfigContent(config, isMinifyOn) ==
    [bundles |-> [i \in DOMAIN config |->
                    [k |-> config[i].name,
                     v |-> [j \in DOMAIN config[i].modules |-> StripJs(config[i].modules[j].k)]]],
     paths |-> [i \in DOMAIN config |->
                    [k |-> config[i].name, v |-> [bundle |-> config[i].name, min |-> isMinifyOn]]]]

\* buildRequireConfigContent of configInjector.js: paths[bundleId] = bundleId.
buildRequireConfigContentB(config) == buildRequireConfigContent(config, FALSE)

\* Index of the first end marker at or after i, 0 when there is none.
RECURSIVE EndMarkerFrom(_, _)
EndMarkerFrom(text, i) ==
    IF i > Len(text) THEN 0
    ELSE IF text[i] = endMarker THEN i ELSE EndMarkerFrom(text, i + 1)

\* mainConfig.replace(cleanRegex, ''), cleanRegex = /\n?START[\s\S]*?END/g
RECURSIVE cleanFrom(_, _)
cleanFrom(text, i) ==
    IF i > Len(text) THEN <<>>
    ELSE LET start == IF text[i] = Ch("nl") /\ i < Len(text) /\ text[i + 1] = startMarker THEN i + 1
                      ELSE IF text[i] = startMarker THEN i
                      ELSE 0
             end == IF start = 0 THEN 0 ELSE EndMarkerFrom(text, start + 1)
         IN IF end = 0 THEN <<text[i]>> \o cleanFrom(text, i + 1)
            ELSE cleanFrom(text, end + 1)

\* String.prototype.trim
RECURSIVE trim(_)
trim(text) ==
    IF text = <<>> THEN <<>>
    ELSE IF Head(text) = Ch("nl") THEN trim(Tail(text))
    ELSE IF text[Len(text)] = Ch("nl") THEN trim(SubSeq(text, 1, Len(text) - 1))
    ELSE text

\* injectConfigIntoMain (bundle.js): the text written back to the file.
injectConfigIntoMain(mainConfig, newConfigContent) ==
    LET injection == <<Ch("nl"), startMarker, Ch("nl"), [require |-> newConfigContent], Ch("nl"), endMarker>>
    IN trim(cleanFrom(mainConfig, 1)) \o <<Ch(";"), Ch("nl")>> \o injection

\* injectRequireConfig (configInjector.js): the text written back to a file.
injectRequireConfig(mainConfig, newConfigContent) ==
    LET injection == <<startMarker, [require |-> newConfigContent], endMarker>>
    IN trim(cleanFrom(mainConfig, 1)) \o <<Ch(";"), Ch("nl")>> \o injection

\* The bundle configuration of a run (magepack.config.js): two bundles.
RunConfig ==
    <<[name |-> "vendor", modules |-> <<[k |-> idMageUtils, v |-> PathOf(1, idMageUtils)],
                                        [k |-> idSlick, v |-> PathOf(1, idSlick)]>>],
      [name |-> "cms", modules |-> <<[k |-> idUiAsync, v |-> PathOf(1, idUiAsync)]>>]>>

\* The configurations an injection run is given.
Configs == {RunConfig, SubSeq(RunConfig, 1, 1)}

AbsentFile == [exists |-> FALSE, content |-> <<>>]

InjectIdle ==
    /\ injVariant = "none" /\ injMinifyOn = FALSE
    /\ rjsFiles = [js |-> AbsentFile, min |-> AbsentFile]
    /\ rjsOrig = rjsFiles
    /\ injHist = <<>>

InjectInit ==
    /\ injVariant \in {"main", "service"}
    /\ injMinifyOn \in BOOLEAN
    /\ injVariant = "service" => injMinifyOn = FALSE
    /\ \E content \in SeqsUpTo(Chars, MaxChars), hasJs, hasMin \in BOOLEAN :
          rjsFiles = [js |-> IF hasJs THEN [exists |-> TRUE, content |-> content] ELSE AbsentFile,
                      min |-> IF hasMin THEN [exists |-> TRUE, content |-> content] ELSE AbsentFile]
    /\ rjsOrig = rjsFiles
    /\ injHist = <<>>

\* fs.access fails with ENOENT: the file is left alone.
InjectedFile(file, text) == IF file.exists THEN [exists |-> TRUE, content |-> text] ELSE file

\* bundle.js: buildRequireConfigContent, then injectConfigIntoMain on the one
\* file chosen by isMinifyOn.
InjectMain(config) ==
    /\ injVariant = "main" /\ Len(injHist) < MaxRuns
    /\ LET which == IF injMinifyOn THEN "min" ELSE "js"
           built == buildRequireConfigContent(config, injMinifyOn)
       IN rjsFiles' = [rjsFiles EXCEPT ![which] =
                          InjectedFile(@, injectConfigIntoMain(@.content, built))]
    /\ injHist' = Append(injHist, [config |-> config, files |-> rjsFiles'])
    /\ UNCHANGED <<injVariant, injMinifyOn, rjsOrig>>

\* configInjector.js: both files, one after the other.
InjectService(config) ==
    /\ injVariant = "service" /\ Len(injHist) < MaxRuns
    /\ LET built == buildRequireConfigContentB(config)
       IN rjsFiles' = [f \in DOMAIN rjsFiles |->
                          InjectedFile(rjsFiles[f], injectRequireConfig(rjsFiles[f].content, built))]
    /\ injHist' = Append(injHist, [config |-> config, files |-> rjsFiles'])
    /\ UNCHANGED <<injVariant, injMinifyOn, rjsOrig>>

\* C4: a second injection of the same bundle configuration leaves the
\* requirejs-config files byte-identical to what the first injection wrote.
C4_Idempotent ==
    \A i \in 1..(Len(injHist) - 1) :
       injHist[i + 1].config = injHist[i].config => injHist[i + 1].files = injHist[i].files

\* A file never holds more than one marker block after an injection.
C4_OneBlock ==
    \A i \in DOMAIN injHist : \A f \in DOMAIN injHist[i].files :
       Cardinality({j \in DOMAIN injHist[i].files[f].content :
                       injHist[i].files[f].content[j] \in {[require |-> buildRequireConfigContent(c, m)] :
                                                            c \in Configs, m \in BOOLEAN}}) <= 1

\* The text outside the marker-delimited fragments: every stretch from a
\* start marker to the next end marker is left out.
RECURSIVE OutsideMarkers(_, _)
OutsideMarkers(text, i) ==
    IF i > Len(text) THEN <<>>
    ELSE LET end == IF text[i] = startMarker THEN EndMarkerFrom(text, i + 1) ELSE 0
         IN IF end = 0 THEN <<text[i]>> \o OutsideMarkers(text, i + 1)
            ELSE OutsideMarkers(text, end + 1)

\* The files an injection run works on.
InjectionTargets ==
    IF injVariant = "service" THEN {"js", "min"}
    ELSE IF injMinifyOn THEN {"min"} ELSE {"js"}

\* The generated require.config calls in a text, in order.
Fragments(text) == SelectSeq(text, LAMBDA tok : "require" \in DOMAIN tok)

\* C13: after every injection each targeted file that exists holds exactly
\* one generated fragment, the one of the most recent run, and the text
\* outside the markers is the text the file had outside markers before the
\* first injection.
C13_OutsideUntouched ==
    \A i \in DOMAIN injHist : \A f \in InjectionTargets :
       LET after == injHist[i].files[f]
       IN after.exists =>
            /\ Fragments(after.content) =
                  <<[require |-> buildRequireConfigContent(injHist[i].config, injMinifyOn)]>>
            /\ OutsideMarkers(after.content, 1) = OutsideMarkers(rjsOrig[f].content, 1)

\* The part of C13 that holds: one fragment, the most recent one.
C13_OneRecentFragment ==
    \A i \in DOMAIN injHist : \A f \in InjectionTargets :
       LET after == injHist[i].files[f]
       IN after.exists =>
            Fragments(after.content) =
               <<[require |-> buildRequireConfigContent(injHist[i].config, injMinifyOn)]>>

(***************************************************************************)
(* RUN ORCHESTRATOR  (src/lib/bundle.js 91-160: processLocale and the      *)
(* default export with Promise.allSettled; and the sequential default      *)
(* exports with a for loop over the locales, without and with              *)
(* validateConfig)                                                         *)
(*                                                                         *)
(* A run bundles RunConfig for every locale.  processBundle is seen here   *)
(* from outside: it abandons the bundle, or writes the bundle file into    *)
(* <localePath>/magepack and compresses it, or rejects.                    *)
(***************************************************************************)
\* getLocales(process.cwd()), in the order the loop visits them.
Locales == <<"en_US", "fr_FR">>
LocaleSet == Range(Locales)

BundleNames == {RunConfig[i].name : i \in DOMAIN RunConfig}

\* Object.keys(bundle.modules) of the bundle called name.
Members(name) == LET i == CHOOSE i \in DOMAIN RunConfig : RunConfig[i].name = name
                 IN Keys(RunConfig[i].modules)

\* What a locale's static directory may hold: every module, all but slick,
\* or all but the only module of the cms bundle.
DiskCases == {ModuleIds, ModuleIds \ {idSlick}, ModuleIds \ {idUiAsync}}

NoBundleFile == [exists |-> FALSE, gen |-> "none", min |-> FALSE, defines |-> {}]

\* The bundle file a previous run left behind.
OldBundleFile(name, min) == [exists |-> TRUE, gen |-> "old", min |-> min, defines |-> Range(Members(name))]

\* The bundle file processBundle writes: bundle-<name>(.min).js with the
\* modules that were read.
NewBundleFile(name, min, disk) ==
    [exists |-> TRUE, gen |-> "new", min |-> min, defines |-> Range(Members(name)) \cap disk]

\* generateRequireConfig of the sequential variant: every bundle of the
\* config under its (suffixed) id, all its module keys, no paths.
generateRequireConfig(bundles, min) ==
    [bundles |-> [i \in DOMAIN bundles |->
                    [k |-> [bundle |-> bundles[i].name, min |-> min], v |-> Keys(bundles[i].modules)]],
     deps |-> Filter([i \in DOMAIN bundles |-> bundles[i].name], {"vendor", "common"})]

\* require(configPath) as the orchestrators use it: the value itself when it
\* is a list; the object form is not unwrapped, no bundle comes out of it.
LoadedConfig == IF defFile = "list" THEN RunConfig ELSE <<>>

ConfigNames == {LoadedConfig[i].name : i \in DOMAIN LoadedConfig}

\* config.map(...) / config.forEach(...) on a value that is no list throws a
\* TypeError.
MapThrows == defFile = "object"

\* Before any locale: require throws, or validateConfig finds no array.
LoadThrows == defFile = "throws" \/ (runVariant = "validated" /\ defFile = "object")

RunIdle ==
    /\ runVariant = "none" /\ defFile = "none" /\ minifyOn = FALSE
    /\ diskOf = [l \in LocaleSet |-> {}]
    /\ bundleState = [l \in LocaleSet |-> [b \in BundleNames |-> "idle"]]
    /\ liveDir = [l \in LocaleSet |-> [b \in BundleNames |-> NoBundleFile]]
    /\ rjsFile = [l \in LocaleSet |-> <<>>]
    /\ outcome = [l \in LocaleSet |-> "none"]
    /\ settleOrder = <<>>
    /\ exitCode = -1

RunInit ==
    /\ runVariant \in {"parallel", "sequential", "validated"}
    /\ defFile \in {"list", "emptyList", "object", "throws"}
    /\ minifyOn \in BOOLEAN
    /\ \E disk \in DiskCases : diskOf = [l \in LocaleSet |-> IF l = Locales[1] THEN disk ELSE ModuleIds]
    /\ bundleState = [l \in LocaleSet |-> [b \in BundleNames |-> "idle"]]
    /\ \E previous \in BOOLEAN :
          liveDir = [l \in LocaleSet |-> [b \in BundleNames |->
                        IF previous THEN OldBundleFile(b, minifyOn) ELSE NoBundleFile]]
    /\ rjsFile = [l \in LocaleSet |-> <<Ch("x")>>]
    /\ outcome = [l \in LocaleSet |-> "none"]
    /\ settleOrder = <<>>
    /\ exitCode = -1

\* The default export rejects before the first locale; the CLI's
\* errorHandler logs and calls process.exit(1).
LoadFails ==
    /\ exitCode = -1 /\ LoadThrows
    /\ exitCode' = 1
    /\ UNCHANGED <<runVariant, defFile, minifyOn, diskOf, bundleState, liveDir, rjsFile, outcome, settleOrder>>

\* A loop without the try/catch around its body: only success lets it go on.
SettledFulfilledOnly(l) == outcome[l] = "fulfilled"

Settled(l) == outcome[l] \in {"fulfilled", "rejected"}

\* bundle.js: locales.map(locale => processLocale(...)) starts every locale,
\* and each processLocale starts every bundle of the config.
StartAllLocales ==
    /\ runVariant = "parallel" /\ exitCode = -1 /\ ~LoadThrows
    /\ \A l \in LocaleSet : outcome[l] = "none"
    /\ outcome' = [l \in LocaleSet |-> "running"]
    /\ bundleState' = [l \in LocaleSet |->
                         [b \in BundleNames |-> IF b \in ConfigNames THEN "running" ELSE "idle"]]
    /\ UNCHANGED <<runVariant, defFile, minifyOn, diskOf, liveDir, rjsFile, settleOrder, exitCode>>

\* Sequential variant: the loop enters the next locale once the one before
\* has settled.
StartNextLocale(i) ==
    /\ runVariant \in {"sequential", "validated"} /\ exitCode = -1 /\ ~LoadThrows
    /\ outcome[Locales[i]] = "none"
    /\ \A j \in 1..(i - 1) : Settled(Locales[j])
    /\ outcome' = [outcome EXCEPT ![Locales[i]] = "running"]
    /\ bundleState' = [bundleState EXCEPT ![Locales[i]] =
                         [b \in BundleNames |-> IF b \in ConfigNames THEN "running" ELSE "idle"]]
    /\ UNCHANGED <<runVariant, defFile, minifyOn, diskOf, liveDir, rjsFile, settleOrder, exitCode>>

\* processBundle ends with `return` at successCount === 0.
BundleAbandons(l, b) ==
    /\ exitCode # 1 /\ bundleState[l][b] = "running"
    /\ Range(Members(b)) \cap diskOf[l] = {}
    /\ bundleState' = [bundleState EXCEPT ![l][b] = "abandoned"]
    /\ UNCHANGED <<runVariant, defFile, minifyOn, diskOf, liveDir, rjsFile, outcome, settleOrder, exitCode>>

\* processBundle up to fs.writeFile(destPath, finalContent): destDir is
\* path.join(localePath, 'magepack'), the directory the storefront serves.
BundleWrites(l, b) ==
    /\ exitCode # 1 /\ bundleState[l][b] = "running"
    /\ Range(Members(b)) \cap diskOf[l] # {}
    /\ liveDir' = [liveDir EXCEPT ![l][b] = NewBundleFile(b, minifyOn, diskOf[l])]
    /\ bundleState' = [bundleState EXCEPT ![l][b] = "written"]
    /\ UNCHANGED <<runVariant, defFile, minifyOn, diskOf, rjsFile, outcome, settleOrder, exitCode>>

\* fs.mkdir or fs.writeFile rejects, and so does processBundle.
BundleWriteFails(l, b) ==
    /\ exitCode # 1 /\ bundleState[l][b] = "running"
    /\ Range(Members(b)) \cap diskOf[l] # {}
    /\ bundleState' = [bundleState EXCEPT ![l][b] = "rejected"]
    /\ UNCHANGED <<runVariant, defFile, minifyOn, diskOf, liveDir, rjsFile, outcome, settleOrder, exitCode>>

\* compressFile and reportBundleSize succeed: processBundle fulfils.
BundleCompresses(l, b) ==
    /\ exitCode # 1 /\ bundleState[l][b] = "written"
    /\ bundleState' = [bundleState EXCEPT ![l][b] = "done"]
    /\ UNCHANGED <<runVariant, defFile, minifyOn, diskOf, liveDir, rjsFile, outcome, settleOrder, exitCode>>

\* compressFile rejects after the bundle file was written.
BundleCompressFails(l, b) ==
    /\ exitCode # 1 /\ bundleState[l][b] = "written"
    /\ bundleState' = [bundleState EXCEPT ![l][b] = "rejected"]
    /\ UNCHANGED <<runVariant, defFile, minifyOn, diskOf, liveDir, rjsFile, outcome, settleOrder, exitCode>>

\* Promise.all rejects with the first rejected processBundle, or config.map
\* throws before any processBundle is called; the catch logs (and, in
\* bundle.js, rethrows).  The other bundles of the locale keep running.
LocaleRejects(l) ==
    /\ exitCode = -1 /\ outcome[l] = "running"
    /\ MapThrows \/ \E b \in BundleNames : bundleState[l][b] = "rejected"
    /\ outcome' = [outcome EXCEPT ![l] = "rejected"]
    /\ settleOrder' = Append(settleOrder, l)
    /\ UNCHANGED <<runVariant, defFile, minifyOn, diskOf, bundleState, liveDir, rjsFile, exitCode>>

\* bundle.js 112-114: every processBundle fulfilled; build and inject the config.
InjectConfig(l) ==
    /\ runVariant = "parallel"
    /\ exitCode = -1 /\ outcome[l] = "running" /\ ~MapThrows
    /\ \A b \in ConfigNames : bundleState[l][b] \in {"done", "abandoned"}
    /\ rjsFile' = [rjsFile EXCEPT ![l] =
                      injectConfigIntoMain(@, buildRequireConfigContent(LoadedConfig, minifyOn))]
    /\ outcome' = [outcome EXCEPT ![l] = "fulfilled"]
    /\ settleOrder' = Append(settleOrder, l)
    /\ UNCHANGED <<runVariant, defFile, minifyOn, diskOf, bundleState, liveDir, exitCode>>

\* bundle.js 59-81: fs.access finds no requirejs-config file, or the read or
\* the write rejects; the catch of injectConfigIntoMain warns and returns, so
\* processLocale fulfils with the file as it was.
InjectSkipped(l) ==
    /\ runVariant = "parallel"
    /\ exitCode = -1 /\ outcome[l] = "running" /\ ~MapThrows
    /\ \A b \in ConfigNames : bundleState[l][b] \in {"done", "abandoned"}
    /\ outcome' = [outcome EXCEPT ![l] = "fulfilled"]
    /\ settleOrder' = Append(settleOrder, l)
    /\ UNCHANGED <<runVariant, defFile, minifyOn, diskOf, bundleState, liveDir, rjsFile, exitCode>>

\* Sequential variant: generateRequireConfig writes requirejs-config-common.
WriteCommonConfig(l) ==
    /\ runVariant \in {"sequential", "validated"}
    /\ exitCode = -1 /\ outcome[l] = "running" /\ ~MapThrows
    /\ \A b \in ConfigNames : bundleState[l][b] \in {"done", "abandoned"}
    /\ rjsFile' = [rjsFile EXCEPT ![l] = <<[require |-> generateRequireConfig(LoadedConfig, minifyOn)]>>]
    /\ outcome' = [outcome EXCEPT ![l] = "fulfilled"]
    /\ settleOrder' = Append(settleOrder, l)
    /\ UNCHANGED <<runVariant, defFile, minifyOn, diskOf, bundleState, liveDir, exitCode>>

allOrFirstRejection(results) ==
    \/ \A l \in DOMAIN results : results[l] = "fulfilled"
    \/ \E l \in DOMAIN results : results[l] = "rejected"

\* Promise.allSettled: resolves when every processLocale promise has settled.
allSettled(results) == \A l \in DOMAIN results : results[l] \in {"fulfilled", "rejected"}

\* bundle.js 149-159: failed.length > 0 ? process.exit(1) : success.
SummaryReport ==
    /\ runVariant = "parallel" /\ exitCode = -1
    /\ allSettled(outcome)
    /\ exitCode' = IF \E l \in LocaleSet : outcome[l] = "rejected" THEN 1 ELSE 0
    /\ UNCHANGED <<runVariant, defFile, minifyOn, diskOf, bundleState, liveDir, rjsFile, outcome, settleOrder>>

\* Sequential variant: the loop is over, "Done" is logged and the function
\* returns; nothing sets an exit code.
LoopEnds ==
    /\ runVariant \in {"sequential", "validated"} /\ exitCode = -1
    /\ \A l \in LocaleSet : Settled(l)
    /\ exitCode' = 0
    /\ UNCHANGED <<runVariant, defFile, minifyOn, diskOf, bundleState, liveDir, rjsFile, outcome, settleOrder>>

\* The live directory holds what the run found there.
LiveIsPrevious(l) == \A b \in BundleNames : liveDir[l][b].gen # "new"

\* The live directory holds the whole new set: a new file for every bundle
\* that is not abandoned.
LiveIsNew(l) ==
    \A b \in BundleNames : Range(Members(b)) \cap diskOf[l] # {} => liveDir[l][b].gen = "new"

\* C3: at every moment the live bundle directory of a target holds either
\* the complete previous bundle set or the complete new one, never a mix.
C3_AtomicVisibility == \A l \in LocaleSet : LiveIsPrevious(l) \/ LiveIsNew(l)

\* C5: a target is reported rejected only for a failure of its own (one of
\* its bundles, or its own mapping over a definition that is no list),
\* fulfilled only when all its own bundles went through, and a run that got
\* to its targets ends only after every target has settled, failed ones
\* notwithstanding.
C5_Isolation ==
    /\ \A l \in LocaleSet :
          outcome[l] = "rejected" => (MapThrows \/ \E b \in BundleNames : bundleState[l][b] = "rejected")
    /\ \A l \in LocaleSet :
          outcome[l] = "fulfilled" => \A b \in ConfigNames : bundleState[l][b] \in {"done", "abandoned"}
    /\ (exitCode # -1 /\ ~LoadThrows) => \A l \in LocaleSet : Settled(l)

\* C5's case happened: both targets ran concurrently, the first failed and
\* the second was still run to completion afterwards.
C5_Witness ==
    /\ runVariant = "parallel" /\ defFile = "list" /\ exitCode = 1
    /\ outcome["en_US"] = "rejected" /\ outcome["fr_FR"] = "fulfilled"
    /\ settleOrder = <<"en_US", "fr_FR">>

\* C6: a run in which a target failed ends with a non-zero exit code.
C6_NonZeroExit ==
    (exitCode # -1 /\ \E l \in LocaleSet : outcome[l] = "rejected") => exitCode # 0

\* The bundles a generated configuration declares: the physical file each is
\* mapped to and its member modules.
Declared(cfg) ==
    IF "paths" \in DOMAIN cfg
    THEN {[file |-> cfg.paths[i].v, members |-> cfg.bundles[i].v] : i \in DOMAIN cfg.bundles}
    ELSE {[file |-> cfg.bundles[i].k, members |-> cfg.bundles[i].v] : i \in DOMAIN cfg.bundles}

DeclaredIn(text) ==
    UNION {Declared(text[i].require) : i \in {j \in DOMAIN text : "require" \in DOMAIN text[j]}}

\* C7: once a target is processed, every bundle its loader configuration
\* declares exists under the mapped file name in the output directory and
\* defines every module listed as its member.
C7_ConfigConsistent ==
    \A l \in LocaleSet :
       outcome[l] = "fulfilled" =>
          \A d \in DeclaredIn(rjsFile[l]) :
             /\ liveDir[l][d.file.bundle].exists
             /\ liveDir[l][d.file.bundle].min = d.file.min
             /\ Range(d.members) \subseteq liveDir[l][d.file.bundle].defines

\* Nothing of target l was touched: it was not started, no bundle file was
\* written and its loader configuration is as the run found it.
Untouched(l) ==
    /\ outcome[l] = "none"
    /\ \A b \in BundleNames : liveDir[l][b].gen # "new"
    /\ rjsFile[l] = <<Ch("x")>>

\* C17: when the definition file is malformed (it cannot be evaluated, or
\* it is no list) or empty, no target is attempted, no bundle is written and
\* no configuration file is modified.
C17_AbortBeforeTargets ==
    defFile \in {"throws", "object", "emptyList"} => \A l \in LocaleSet : Untouched(l)

\* The part of C17 that holds: a file that cannot be evaluated, under every
\* orchestrator, and a file that is no list, under validateConfig.
C17_LoadErrorAborts == LoadThrows => \A l \in LocaleSet : Untouched(l)

\* C18: a definition file in the object form (the one generate writes) is
\* processed without error, and the run builds the bundles it builds for
\* the list form.
C18_ObjectFormAccepted ==
    defFile = "object" =>
        /\ exitCode # 1
        /\ \A l \in LocaleSet : outcome[l] # "rejected"
        /\ exitCode = 0 => \A l \in LocaleSet : LiveIsNew(l)

\* The run is over and target l has its outcome.
Reported(l) == outcome[l] \in {"fulfilled", "rejected"}

\* C22 as stated: every run eventually finishes with an outcome, succeeded
\* or failed, reported for every target.
C22_AllReported == <>(exitCode # -1 /\ \A l \in LocaleSet : Reported(l))

\* C22 as the code has it: every run eventually finishes; no target is left
\* in a phase, and every target has its outcome unless the definition file
\* could not be loaded, in which case the run fails before any target.
C22_RunFinishes ==
    <>(/\ exitCode # -1
       /\ \A l \in LocaleSet : outcome[l] # "running"
       /\ ~LoadThrows => \A l \in LocaleSet : Reported(l))

\* C22's case happened: the loop over the targets ended after a target had
\* failed and the next one had succeeded.
C22_Witness ==
    /\ runVariant = "sequential" /\ exitCode = 0
    /\ outcome["en_US"] = "rejected" /\ outcome["fr_FR"] = "fulfilled"

\* The phases of a target, read off the state.  Building: some bundle of
\* the target has not finished.  Injected: the loader configuration of the
\* target is no longer the one the run found.
Building(l) ==
    outcome[l] = "running" /\ \E b \in ConfigNames : bundleState[l][b] \in {"running", "written"}

Injected(l) == rjsFile[l] # <<Ch("x")>>

BuildFailed(l) == \E b \in BundleNames : bundleState[l][b] = "rejected"

\* The two statements about the injection: it comes after every bundle
\* of the target has finished building, and never for a failed build.
InjectionAfterBuild ==
    \A l \in LocaleSet :
       Injected(l) =>
          /\ \A b \in ConfigNames : bundleState[l][b] \in {"done", "abandoned"}
          /\ ~BuildFailed(l)
          /\ outcome[l] = "fulfilled"

\* C23: a target goes through Preparing, Building, Swapping and
\* ConfigInjection in this order: while it is Building its live directory
\* still holds what the run found (the new set arrives in Swapping), and its
\* loader configuration is injected only after every bundle has finished
\* building, never after a failed build.
C23_PhaseOrder ==
    /\ \A l \in LocaleSet : Building(l) => LiveIsPrevious(l)
    /\ InjectionAfterBuild

\* Some bundle of the target is still being written or compressed.
WorkInProgress(l) == \E b \in BundleNames : bundleState[l][b] \in {"running", "written"}

\* C29: once a target is reported as succeeded or failed, and once the run
\* has exited, no bundle write or compression of that target is still in
\* progress.
C29_NoWorkAfterOutcome ==
    \A l \in LocaleSet : (Reported(l) \/ exitCode # -1) => ~WorkInProgress(l)

\* The part of C29 that holds: a target reported as succeeded has no bundle
\* in progress.
NoWorkAfterSuccess ==
    \A l \in LocaleSet : outcome[l] = "fulfilled" => ~WorkInProgress(l)

\* C30: a target is reported as succeeded only if the loader configuration
\* fragment was written into its configuration file; a missing file or a
\* failed injection makes the target fail.
C30_SuccessMeansInjected ==
    \A l \in LocaleSet : outcome[l] = "fulfilled" => Injected(l)

(***************************************************************************)
(* INTEGRITY UPDATER  (updateSriHashes: src/lib/bundle/service/            *)
(* sriUpdater.js 24-88 and the variant with processFileHash)               *)
(*                                                                         *)
(* sri-hashes.json is absent, or not JSON, or a JSON object: its entries   *)
(* in document order and the way it is formatted.  A run is: every locale  *)
(* finishes (its artifacts may have new content), then updateSriHashes is  *)
(* called once for all locales.                                            *)
(***************************************************************************)
\* The artifacts updateSriHashes visits for one locale, in order.
ArtifactNames(variant) ==
    (IF variant = "compare"
     THEN <<[name |-> "requirejs-config", min |-> FALSE], [name |-> "requirejs-config", min |-> TRUE]>>
     ELSE <<[name |-> "requirejs-config", min |-> FALSE]>>)
    \o Concat([i \in DOMAIN RunConfig |->
                 <<[name |-> RunConfig[i].name, min |-> FALSE], [name |-> RunConfig[i].name, min |-> TRUE]>>])

ArtifactExistsAny(f, min) == TRUE

\* fs.readFile succeeds: a target holds the artifacts of its minification mode.
ArtifactExists(f, min) == f.min = min

\* generateSriHash(buffer): a digest tells contents apart.
generateSriHash(l, f, ver) == [sha256 |-> <<l, f, ver[l]>>]

\* The manifest key: `${localeKey}/${configFile}`, with the frontend prefix
\* in the comparing variant only.
cacheKey(variant, l, f) == [prefix |-> IF variant = "compare" THEN "frontend" ELSE "", locale |-> l, file |-> f]

\* sriData[cacheKey], undefined when the key is missing.
Lookup(data, key) == IF HasKey(data, key) THEN Get(data, key) ELSE [sha256 |-> <<>>]

\* One artifact: processFileHash sets the entry only when the digest differs;
\* sriUpdater.js sets it and counts it whenever the file can be read.
RECURSIVE hashArtifacts(_, _, _, _, _, _)
hashArtifacts(variant, acc, l, files, min, ver) ==
    IF files = <<>> THEN acc
    ELSE LET f == Head(files)
             key == cacheKey(variant, l, f)
             newHash == generateSriHash(l, f, ver)
             updated == IF ~ArtifactExists(f, min) THEN FALSE
                        ELSE IF variant = "compare" THEN Lookup(acc.data, key) # newHash
                        ELSE TRUE
             next == IF updated
                     THEN [data |-> SetProperty(acc.data, key, newHash), count |-> acc.count + 1]
                     ELSE acc
         IN hashArtifacts(variant, next, l, Tail(files), min, ver)

loopDoneEarly(i) == i > 1

\* for (const locale of locales): the loop is over.
loopDone(i) == i > Len(Locales)

\* An entry of the manifest that belongs to another asset.
OtherEntry == [k |-> cacheKey("compare", "other", [name |-> "mage/bootstrap", min |-> FALSE]),
               v |-> [sha256 |-> <<"other">>]]

\* An entry for en_US/requirejs-config of an earlier content.
StaleEntry(variant, min) ==
    [k |-> cacheKey(variant, "en_US", [name |-> "requirejs-config", min |-> min]), v |-> [sha256 |-> <<"stale">>]]

\* An entry for en_US/magepack/bundle-vendor in the form the target does not
\* build (its file is missing).
MissingEntry(variant, min) ==
    [k |-> cacheKey(variant, "en_US", [name |-> "vendor", min |-> ~min]), v |-> [sha256 |-> <<"stale">>]]

InitialManifests(variant, min) ==
    {[state |-> "absent", format |-> "none", entries |-> <<>>],
     [state |-> "invalid", format |-> "none", entries |-> <<>>]}
    \cup {[state |-> "json", format |-> fmt, entries |-> e] :
            fmt \in {"compact", "indent4"},
            e \in {<<OtherEntry>>, <<StaleEntry(variant, min), OtherEntry>>,
                   <<StaleEntry(variant, min), MissingEntry(variant, min), OtherEntry>>}}

NoPrevRun == [manifest |-> [state |-> "absent", format |-> "none", entries |-> <<>>],
              writeFailed |-> FALSE, changed |-> FALSE]

SriIdle ==
    /\ sriVariant = "none" /\ sriMinOn = FALSE
    /\ version = [l \in LocaleSet |-> 0]
    /\ finished = {} /\ uPc = "idle"
    /\ sriFile = NoPrevRun.manifest
    /\ sriData = <<>> /\ updateCount = 0 /\ uLoc = 0
    /\ readCount = 0 /\ writeCount = 0 /\ writeFailed = FALSE
    /\ sriRuns = 0 /\ prevRun = NoPrevRun

SriInit ==
    /\ sriVariant \in {"compare", "always"}
    /\ sriMinOn \in BOOLEAN
    /\ version = [l \in LocaleSet |-> 1]
    /\ finished = {} /\ uPc = "targets"
    /\ sriFile \in InitialManifests(sriVariant, sriMinOn)
    /\ sriData = <<>> /\ updateCount = 0 /\ uLoc = 0
    /\ readCount = 0 /\ writeCount = 0 /\ writeFailed = FALSE
    /\ sriRuns = 1 /\ prevRun = [NoPrevRun EXCEPT !.manifest = sriFile]

\* processLocale for one locale settles; a rebuild may have changed the
\* content of its artifacts.
TargetFinishes(l, changed) ==
    /\ uPc = "targets" /\ l \notin finished
    /\ finished' = finished \cup {l}
    /\ version' = [version EXCEPT ![l] = IF changed THEN @ + 1 ELSE @]
    /\ prevRun' = [prevRun EXCEPT !.changed = @ \/ changed]
    /\ UNCHANGED <<sriVariant, sriMinOn, uPc, sriFile, sriData, updateCount, uLoc, readCount, writeCount,
                   writeFailed, sriRuns>>

\* The orchestrator calls updateSriHashes(locales, bundles) once, after all
\* targets have finished.
CallUpdater ==
    /\ uPc = "targets" /\ finished = LocaleSet
    /\ uPc' = "access"
    /\ UNCHANGED <<sriVariant, sriMinOn, version, finished, sriFile, sriData, updateCount, uLoc, readCount,
                   writeCount, writeFailed, sriRuns, prevRun>>

\* fs.access(sriPath) fails: return.
NoManifest ==
    /\ uPc = "access" /\ sriFile.state = "absent"
    /\ uPc' = "done"
    /\ UNCHANGED <<sriVariant, sriMinOn, version, finished, sriFile, sriData, updateCount, uLoc, readCount,
                   writeCount, writeFailed, sriRuns, prevRun>>

\* fs.readFile and JSON.parse; updateCount = 0.
ReadManifest ==
    /\ uPc = "access" /\ sriFile.state = "json"
    /\ readCount' = readCount + 1
    /\ sriData' = sriFile.entries
    /\ updateCount' = 0
    /\ uLoc' = 1
    /\ uPc' = "loop"
    /\ UNCHANGED <<sriVariant, sriMinOn, version, finished, sriFile, writeCount, writeFailed, sriRuns, prevRun>>

\* JSON.parse throws: the outer catch logs, nothing is written.
ParseFails ==
    /\ uPc = "access" /\ sriFile.state = "invalid"
    /\ readCount' = readCount + 1
    /\ uPc' = "done"
    /\ UNCHANGED <<sriVariant, sriMinOn, version, finished, sriFile, sriData, updateCount, uLoc, writeCount,
                   writeFailed, sriRuns, prevRun>>

\* One iteration of the loop over the locales: every artifact of the locale.
HashLocale ==
    /\ uPc = "loop" /\ ~loopDone(uLoc) /\ uLoc <= Len(Locales)
    /\ LET result == hashArtifacts(sriVariant, [data |-> sriData, count |-> updateCount], Locales[uLoc],
                                   ArtifactNames(sriVariant), sriMinOn, version)
       IN /\ sriData' = result.data
          /\ updateCount' = result.count
    /\ uLoc' = uLoc + 1
    /\ UNCHANGED <<sriVariant, sriMinOn, version, finished, uPc, sriFile, readCount, writeCount, writeFailed,
                   sriRuns, prevRun>>

\* if (updateCount > 0) fs.writeFile(sriPath, JSON.stringify(sriData, null, 4))
WriteManifest ==
    /\ uPc = "loop" /\ loopDone(uLoc) /\ updateCount > 0
    /\ sriFile' = [state |-> "json", format |-> "indent4", entries |-> sriData]
    /\ writeCount' = writeCount + 1
    /\ uPc' = "done"
    /\ UNCHANGED <<sriVariant, sriMinOn, version, finished, sriData, updateCount, uLoc, readCount, writeFailed,
                   sriRuns, prevRun>>

\* The write is rejected: the outer catch logs, the file stays as it was.
WriteManifestFails ==
    /\ uPc = "loop" /\ loopDone(uLoc) /\ updateCount > 0
    /\ writeCount' = writeCount + 1
    /\ writeFailed' = TRUE
    /\ uPc' = "done"
    /\ UNCHANGED <<sriVariant, sriMinOn, version, finished, sriFile, sriData, updateCount, uLoc, readCount,
                   sriRuns, prevRun>>

\* else: 'No relevant file changes detected for SRI.'
NoChanges ==
    /\ uPc = "loop" /\ loopDone(uLoc) /\ updateCount = 0
    /\ uPc' = "done"
    /\ UNCHANGED <<sriVariant, sriMinOn, version, finished, sriFile, sriData, updateCount, uLoc, readCount,
                   writeCount, writeFailed, sriRuns, prevRun>>

\* The command is run again.
RunAgain ==
    /\ uPc = "done" /\ sriRuns < MaxRuns
    /\ sriRuns' = sriRuns + 1
    /\ prevRun' = [manifest |-> sriFile, writeFailed |-> writeFailed, changed |-> FALSE]
    /\ finished' = {} /\ uPc' = "targets"
    /\ sriData' = <<>> /\ updateCount' = 0 /\ uLoc' = 0
    /\ readCount' = 0 /\ writeCount' = 0 /\ writeFailed' = FALSE
    /\ UNCHANGED <<sriVariant, sriMinOn, version, sriFile>>

AllDigestsWritten ==
    \A l \in LocaleSet : \A i \in DOMAIN ArtifactNames(sriVariant) :
       LET f == ArtifactNames(sriVariant)[i]
       IN ArtifactExists(f, sriMinOn) =>
             Lookup(sriFile.entries, cacheKey(sriVariant, l, f)) = generateSriHash(l, f, version)

DigestOfExisting(key, value) ==
    \E l \in LocaleSet : \E i \in DOMAIN ArtifactNames(sriVariant) :
       LET f == ArtifactNames(sriVariant)[i]
       IN /\ f.min = sriMinOn
          /\ key = cacheKey(sriVariant, l, f)
          /\ value = generateSriHash(l, f, version)

\* C14: at the end of an updater run the manifest file is in the state it
\* had at the start (absent, unparsable or JSON); no key of the manifest is
\* gone; a key whose value differs from before, or that is new, belongs to
\* an artifact that exists on disk and now carries that artifact's digest;
\* so the keys of missing artifacts and of unrelated assets keep their values.
C14_OnlyChangedDigests ==
    uPc = "done" =>
       LET before == prevRun.manifest.entries
           after == sriFile.entries
       IN /\ sriFile.state = prevRun.manifest.state
          /\ \A i \in DOMAIN before : HasKey(after, before[i].k)
          /\ \A i \in DOMAIN after :
                (~HasKey(before, after[i].k) \/ Get(before, after[i].k) # after[i].v)
                   => DigestOfExisting(after[i].k, after[i].v)

\* C14's case happened: a run rewrote the stale digest of an existing
\* artifact and added new ones, and left alone the key of a missing artifact
\* and the key of an unrelated asset.
C14_Witness ==
    /\ uPc = "done" /\ writeCount = 1 /\ ~writeFailed
    /\ prevRun.manifest.entries =
          <<StaleEntry(sriVariant, sriMinOn), MissingEntry(sriVariant, sriMinOn), OtherEntry>>
    /\ Get(sriFile.entries, StaleEntry(sriVariant, sriMinOn).k) # StaleEntry(sriVariant, sriMinOn).v
    /\ Get(sriFile.entries, MissingEntry(sriVariant, sriMinOn).k) = MissingEntry(sriVariant, sriMinOn).v
    /\ Get(sriFile.entries, OtherEntry.k) = OtherEntry.v
    /\ Len(sriFile.entries) > 3

(***************************************************************************)
(* VERSION-MAP RESOLVER  (src/lib/bundle/moduleMapResolver.js 1-256)       *)
(*                                                                         *)
(* The manifest requirejs-map.js is absent, unreadable, or a text: whether *)
(* acorn can parse it and the call expressions in it, in the order the     *)
(* walker visits them.  A call is its callee, the shape of its first       *)
(* argument down to config.baseUrlInterceptor, and the properties of that  *)
(* object literal, in source order.  A path is the sequence of the parts   *)
(* path.join put together.                                                 *)
(***************************************************************************)
\* Values of the properties of the literal: string literals and others.
Str(text) == [type |-> "string", s |-> text]
NotAString == [type |-> "number", s |-> "1"]

\* The logical paths of the model; "constructor" is also the name of a
\* member every JavaScript object inherits.
LogicalPaths == {"mage/utils/wrapper", "slick", "constructor"}

\* The properties a baseUrlInterceptor literal may hold.
MapProperties ==
    {[k |-> key, v |-> value] : key \in {"mage/utils/wrapper", "constructor"},
                                value \in {Str("version1"), Str(""), NotAString}}

\* The baseUrlInterceptor literals of the model: empty, one property, and
\* the same key twice with different versions.
MapLiterals ==
    {<<>>}
    \cup {<<property>> : property \in MapProperties}
    \cup {<<[k |-> "mage/utils/wrapper", v |-> Str("version1")],
            [k |-> "mage/utils/wrapper", v |-> Str("version2")]>>}

\* The call expressions a manifest may hold.
MapCalls ==
    {[callee |-> "define", shape |-> "literal", entries |-> <<>>]}
    \cup {[callee |-> "require.config", shape |-> shape, entries |-> <<>>]
            : shape \in {"noObject", "noConfig", "noInterceptor", "notLiteral"}}
    \cup {[callee |-> callee, shape |-> "literal", entries |-> entries]
            : callee \in {"require.config", "requirejs.config"},
              entries \in MapLiterals}

\* Most call expressions of a manifest.
MaxCalls == 2

MapFiles ==
    {[state |-> state, parses |-> FALSE, calls |-> <<>>] : state \in {"absent", "unreadable", "present"}}
    \cup {[state |-> "present", parses |-> TRUE, calls |-> calls] : calls \in SeqsUpTo(MapCalls, MaxCalls)}

\* The root directory of the target.
themeRoot == "pub/static/frontend/Magento/luma/en_US"

\* path.join: the non-empty parts, in order.
pathJoin(parts) == SelectSeq(parts, LAMBDA part : part # "")

\* A JavaScript value that is undefined, and a member inherited from
\* Object.prototype.
Undefined == [type |-> "undefined", s |-> ""]
Inherited == [type |-> "function", s |-> ""]
ObjectPrototypeKeys == {"constructor"}

\* objectExpressionToStringMap: the properties with a string-literal value,
\* a later one replacing an earlier one of the same key.
RECURSIVE objectExpressionToStringMap(_)
objectExpressionToStringMap(properties) ==
    IF properties = <<>> THEN <<>>
    ELSE LET rest == objectExpressionToStringMap(SubSeq(properties, 1, Len(properties) - 1))
             last == properties[Len(properties)]
         IN IF last.v.type # "string" THEN rest
            ELSE IF \E i \in DOMAIN rest : rest[i].k = last.k
                 THEN [i \in DOMAIN rest |-> IF rest[i].k = last.k THEN last ELSE rest[i]]
                 ELSE Append(rest, last)

\* The callback of walk.simple accepts the call: require.config or
\* requirejs.config with an object whose config has a baseUrlInterceptor.
HasInterceptor(call) ==
    /\ call.callee \in {"require.config", "requirejs.config"}
    /\ call.shape \in {"notLiteral", "literal"}

\* extractBaseUrlInterceptor: {} without an AST; otherwise the map of the
\* first accepted call (the empty map when its value is no object literal),
\* {} when no call is accepted.
extractBaseUrlInterceptor(contents) ==
    IF ~contents.parses THEN <<>>
    ELSE LET accepted == SelectSeq(contents.calls, HasInterceptor)
         IN IF accepted = <<>> THEN <<>>
            ELSE objectExpressionToStringMap(Head(accepted).entries)

\* map[modulePath] on a plain object: the own property, else what
\* Object.prototype has under that name, else undefined.
MapLookup(map, modulePath) ==
    IF \E i \in DOMAIN map : map[i].k = modulePath
    THEN (CHOOSE e \in Range(map) : e.k = modulePath).v
    ELSE IF modulePath \in ObjectPrototypeKeys THEN Inherited
    ELSE Undefined

Truthy(value) == value.type = "function" \/ (value.type = "string" /\ value.s # "")

defaultModulePath(themePath, modulePath) == pathJoin(<<themePath, modulePath>>)

\* mappedModulePath: path.join throws a TypeError for a part that is no
\* string.
mappedModulePath(themePath, modulePath, map) ==
    LET value == MapLookup(map, modulePath)
    IN IF ~Truthy(value) THEN defaultModulePath(themePath, modulePath)
       ELSE IF value.type # "string" THEN <<"TypeError">>
       ELSE pathJoin(<<themePath, value.s, modulePath>>)

\* The default export, called with the target root and then with a module
\* path: existsSync, readFileSync and the extraction inside try, the
\* fallback resolver after the catch.
createPathResolver(themePath, file, modulePath) ==
    IF file.state = "present"
    THEN mappedModulePath(themePath, modulePath, extractBaseUrlInterceptor(file))
    ELSE defaultModulePath(themePath, modulePath)

ResolverIdle ==
    /\ mapFile = [state |-> "absent", parses |-> FALSE, calls |-> <<>>]
    /\ logicalPath = "slick"
    /\ resolved = <<"idle">>

ResolverInit ==
    /\ mapFile \in MapFiles
    /\ logicalPath \in LogicalPaths
    /\ resolved = <<"pending">>

\* processor.js 74 and 86: resolveMap = createPathResolver(localePath,
\* isMinifyOn); mappedPath = resolveMap(rawModulePath).
Resolve ==
    /\ resolved = <<"pending">>
    /\ resolved' = createPathResolver(themeRoot, mapFile, logicalPath)
    /\ UNCHANGED <<mapFile, logicalPath>>

\* The manifest gives no map: it is absent or unreadable, it does not parse,
\* or no call in it is a configuration call whose config.baseUrlInterceptor
\* is an object literal.
NoMap ==
    \/ mapFile.state # "present"
    \/ ~mapFile.parses
    \/ ~\E i \in DOMAIN mapFile.calls :
          /\ mapFile.calls[i].callee \in {"require.config", "requirejs.config"}
          /\ mapFile.calls[i].shape = "literal"

\* The string the extracted map holds for the logical path, if it has one.
ExtractedEntries == IF mapFile.state = "present" THEN extractBaseUrlInterceptor(mapFile) ELSE <<>>
HasStringEntry == \E i \in DOMAIN ExtractedEntries : ExtractedEntries[i].k = logicalPath
StringEntry == (CHOOSE e \in Range(ExtractedEntries) : e.k = logicalPath).v.s

\* C27: the resolver never raises; without a map every logical path
\* resolves to the target root joined with the logical path, and with a
\* string entry for the path to the root joined with the entry's value and
\* then with the logical path.
C27_BestEffort ==
    resolved \notin {<<"pending">>, <<"idle">>} =>
        /\ resolved # <<"TypeError">>
        /\ NoMap => resolved = <<themeRoot, logicalPath>>
        /\ HasStringEntry => resolved = pathJoin(<<themeRoot, StringEntry, logicalPath>>)

\* The same statement for the logical paths that are no name of a member
\* of Object.prototype, where it holds.
BestEffortOwnNames ==
    (resolved \notin {<<"pending">>, <<"idle">>} /\ logicalPath \notin ObjectPrototypeKeys) =>
        /\ resolved # <<"TypeError">>
        /\ NoMap => resolved = <<themeRoot, logicalPath>>
        /\ HasStringEntry => resolved = pathJoin(<<themeRoot, StringEntry, logicalPath>>)

(***************************************************************************)
(* SPECIFICATIONS                                                          *)
(*                                                                         *)
(* One per component.  Under each the other components stay idle.          *)
(***************************************************************************)
notClassifier == <<wrapVars, bundleVars, injectVars, runVars, sriVars, resolverVars>>
notWrap == <<classifierVars, bundleVars, injectVars, runVars, sriVars, resolverVars>>
notBundle == <<classifierVars, wrapVars, injectVars, runVars, sriVars, resolverVars>>
notInject == <<classifierVars, wrapVars, bundleVars, runVars, sriVars, resolverVars>>
notRun == <<classifierVars, wrapVars, bundleVars, injectVars, sriVars, resolverVars>>
notSri == <<classifierVars, wrapVars, bundleVars, injectVars, runVars, resolverVars>>
notResolver == <<classifierVars, wrapVars, bundleVars, injectVars, runVars, sriVars>>

ClassifyInit == ClassifierInit /\ WrapIdle /\ BundleIdle /\ InjectIdle /\ RunIdle /\ SriIdle /\ ResolverIdle
ClassifyNext ==
    \/ Collect /\ UNCHANGED notClassifier
    \/ RunClassifier /\ UNCHANGED notClassifier
    \/ RunClassifierB /\ UNCHANGED notClassifier
SpecClassify == ClassifyInit /\ [][ClassifyNext]_vars

NormalizeInit == WrapInit /\ ClassifierIdle /\ BundleIdle /\ InjectIdle /\ RunIdle /\ SriIdle /\ ResolverIdle
NormalizeNext == Normalize /\ UNCHANGED notWrap
SpecWrap == NormalizeInit /\ [][NormalizeNext]_vars

ProcessInit == BundleInit /\ ClassifierIdle /\ WrapIdle /\ InjectIdle /\ RunIdle /\ SriIdle /\ ResolverIdle
ProcessNext ==
    \/ \E moduleName \in BundleModuleIds : ReadCompletes(moduleName) /\ UNCHANGED notBundle
    \/ \E moduleName \in BundleModuleIds : ReadSkipped(moduleName) /\ UNCHANGED notBundle
    \/ \E moduleName \in BundleModuleIds : ReadThrows(moduleName) /\ UNCHANGED notBundle
    \/ Abandon /\ UNCHANGED notBundle
    \/ Concatenate /\ UNCHANGED notBundle
    \/ TerserOk /\ UNCHANGED notBundle
    \/ TerserThrows /\ UNCHANGED notBundle
    \/ WriteFile /\ UNCHANGED notBundle
    \/ WriteFileFails /\ UNCHANGED notBundle
    \/ CompressFile /\ UNCHANGED notBundle
    \/ CompressFileFails /\ UNCHANGED notBundle
SpecBundle == ProcessInit /\ [][ProcessNext]_vars

InjectionInit == InjectInit /\ ClassifierIdle /\ WrapIdle /\ BundleIdle /\ RunIdle /\ SriIdle /\ ResolverIdle
InjectionNext ==
    \/ \E config \in Configs : InjectMain(config) /\ UNCHANGED notInject
    \/ \E config \in Configs : InjectService(config) /\ UNCHANGED notInject
SpecInject == InjectionInit /\ [][InjectionNext]_vars

BundlingInit == RunInit /\ ClassifierIdle /\ WrapIdle /\ BundleIdle /\ InjectIdle /\ SriIdle /\ ResolverIdle
BundlingNext ==
    \/ LoadFails /\ UNCHANGED notRun
    \/ StartAllLocales /\ UNCHANGED notRun
    \/ \E i \in DOMAIN Locales : StartNextLocale(i) /\ UNCHANGED notRun
    \/ \E l \in LocaleSet, b \in BundleNames : BundleAbandons(l, b) /\ UNCHANGED notRun
    \/ \E l \in LocaleSet, b \in BundleNames : BundleWrites(l, b) /\ UNCHANGED notRun
    \/ \E l \in LocaleSet, b \in BundleNames : BundleWriteFails(l, b) /\ UNCHANGED notRun
    \/ \E l \in LocaleSet, b \in BundleNames : BundleCompresses(l, b) /\ UNCHANGED notRun
    \/ \E l \in LocaleSet, b \in BundleNames : BundleCompressFails(l, b) /\ UNCHANGED notRun
    \/ \E l \in LocaleSet : LocaleRejects(l) /\ UNCHANGED notRun
    \/ \E l \in LocaleSet : InjectConfig(l) /\ UNCHANGED notRun
    \/ \E l \in LocaleSet : InjectSkipped(l) /\ UNCHANGED notRun
    \/ \E l \in LocaleSet : WriteCommonConfig(l) /\ UNCHANGED notRun
    \/ SummaryReport /\ UNCHANGED notRun
    \/ LoopEnds /\ UNCHANGED notRun
SpecRun == BundlingInit /\ [][BundlingNext]_vars

\* The same run under the scheduling of the event loop: a pending file
\* operation completes (or fails) and a settled promise's continuation runs,
\* so a step that can be taken is not put off forever.
SpecRunFair == SpecRun /\ WF_vars(BundlingNext)

IntegrityInit == SriInit /\ ClassifierIdle /\ WrapIdle /\ BundleIdle /\ InjectIdle /\ RunIdle /\ ResolverIdle
IntegrityNext ==
    \/ \E l \in LocaleSet, changed \in BOOLEAN : TargetFinishes(l, changed) /\ UNCHANGED notSri
    \/ CallUpdater /\ UNCHANGED notSri
    \/ NoManifest /\ UNCHANGED notSri
    \/ ReadManifest /\ UNCHANGED notSri
    \/ ParseFails /\ UNCHANGED notSri
    \/ HashLocale /\ UNCHANGED notSri
    \/ WriteManifest /\ UNCHANGED notSri
    \/ WriteManifestFails /\ UNCHANGED notSri
    \/ NoChanges /\ UNCHANGED notSri
    \/ RunAgain /\ UNCHANGED notSri
SpecSri == IntegrityInit /\ [][IntegrityNext]_vars

ResolutionInit ==
    ResolverInit /\ ClassifierIdle /\ WrapIdle /\ BundleIdle /\ InjectIdle /\ RunIdle /\ SriIdle
ResolutionNext == Resolve /\ UNCHANGED notResolver
SpecResolve == ResolutionInit /\ [][ResolutionNext]_vars

====
